---------------------------- MODULE Spec2Model ----------------------------
(***************************************************************************)
(* CortexVision: teaching a class (app.py teach / teach_workflow /         *)
(* _background_train on top of snowflake_conn.CustomSnowflake), deleting   *)
(* a class (admin_routes.py) and classifying an uploaded image             *)
(* (app.py run_classification_on_uploaded).                                *)
(*                                                                         *)
(* Text values (names, paths, identifiers) are tuples of one-character     *)
(* strings, so that normalisation, formatting, parsing and SQL LIKE are    *)
(* computed character by character as the code computes them.              *)
(* Tables of the Metadata Store are bags of rows: none of the tables has   *)
(* a key, so the same row can be stored more than once.                    *)
(* Every SQL statement is applied to the store at once (the connector's    *)
(* default autocommit session), and is one atomic step of its thread.      *)
(***************************************************************************)
EXTENDS Integers, Sequences, FiniteSets, Bags, TLC

(***************************************************************************)
(* Bounds of the model.                                                    *)
(***************************************************************************)
MaxThreads == 2      \* request and background threads alive at a time
MaxOps == 3          \* requests started in one behaviour
MaxId == 11          \* largest class number of a drawn CLASS_EMBEDDINGS table
MaxRows == 6         \* rows of a drawn CLASS_EMBEDDINGS table (classification)
MaxScore == 2        \* similarity scores are 0..MaxScore
NumImages == 1       \* images the acquisition provider downloads at most
MaxFaults == 1       \* failures of external calls in one behaviour

(***************************************************************************)
(* Text helpers.                                                           *)
(***************************************************************************)
Digits == <<"0", "1", "2", "3", "4", "5", "6", "7", "8", "9">>

DigitChars == {Digits[i] : i \in 1..10}

Lower == <<"a", "b", "c", "d", "e", "f", "g", "h", "i", "j", "k", "l", "m",
           "n", "o", "p", "q", "r", "s", "t", "u", "v", "w", "x", "y", "z">>

Capital == <<"A", "B", "C", "D", "E", "F", "G", "H", "I", "J", "K", "L", "M",
             "N", "O", "P", "Q", "R", "S", "T", "U", "V", "W", "X", "Y", "Z">>

Letters == {Lower[i] : i \in 1..Len(Lower)} \cup {Capital[i] : i \in 1..Len(Capital)}

\* str.isalnum() of a character
IsAlnum(ch) == ch \in Letters \cup DigitChars

DigitVal(ch) == (CHOOSE i \in 1..10 : Digits[i] = ch) - 1

UpperChar(ch) ==
    IF \E i \in 1..Len(Lower) : Lower[i] = ch
    THEN Capital[CHOOSE i \in 1..Len(Lower) : Lower[i] = ch]
    ELSE ch

\* str.upper()
Upper(s) == [i \in 1..Len(s) |-> UpperChar(s[i])]

RECURSIVE Strip(_)
\* str.strip() for the blank character
Strip(s) ==
    IF s = <<>> THEN <<>>
    ELSE IF Head(s) = " " THEN Strip(Tail(s))
    ELSE IF s[Len(s)] = " " THEN Strip(SubSeq(s, 1, Len(s) - 1))
    ELSE s

ReplaceChar(s, old, new) == [i \in 1..Len(s) |-> IF s[i] = old THEN new ELSE s[i]]

RECURSIVE Decimal(_)
\* str(n) for n >= 0
Decimal(n) ==
    IF n < 10 THEN <<Digits[n + 1]>>
    ELSE Decimal(n \div 10) \o <<Digits[(n % 10) + 1]>>

RECURSIVE ParseInt(_, _)
\* CAST(s AS INTEGER) for a text of decimal digits, acc the value read so far
ParseInt(s, acc) ==
    IF s = <<>> THEN acc ELSE ParseInt(Tail(s), 10 * acc + DigitVal(Head(s)))

StartsWith(s, p) == Len(s) >= Len(p) /\ SubSeq(s, 1, Len(p)) = p

RECURSIVE Like(_, _)
\* SQL  s LIKE pat : % matches any text, _ any one character
Like(s, pat) ==
    IF pat = <<>> THEN s = <<>>
    ELSE IF Head(pat) = "%"
         THEN \E k \in 0..Len(s) : Like(SubSeq(s, k + 1, Len(s)), Tail(pat))
    ELSE IF s = <<>> THEN FALSE
    ELSE (Head(pat) = "_" \/ Head(pat) = Head(s)) /\ Like(Tail(s), Tail(pat))

RECURSIVE LastSlash(_)
\* index of the last "/" of s, 0 when there is none
LastSlash(s) ==
    IF s = <<>> THEN 0
    ELSE IF s[Len(s)] = "/" THEN Len(s)
    ELSE LastSlash(SubSeq(s, 1, Len(s) - 1))

\* os.path.basename
Basename(path) == SubSeq(path, LastSlash(path) + 1, Len(path))

RECURSIVE LastDot(_)
LastDot(s) ==
    IF s = <<>> THEN 0
    ELSE IF s[Len(s)] = "." THEN Len(s)
    ELSE LastDot(SubSeq(s, 1, Len(s) - 1))

\* os.path.splitext(basename)[0]: a leading dot does not start an extension
SplitextRoot(base) ==
    IF LastDot(base) <= 1 THEN base ELSE SubSeq(base, 1, LastDot(base) - 1)

\* _safe(name) of teach and teach_workflow
SafeChar(ch) == IsAlnum(ch) \/ ch \in {" ", "-", "_"}

Safe(name) == ReplaceChar(Strip(SelectSeq(name, SafeChar)), " ", "_")

(***************************************************************************)
(* Values of the requests.                                                 *)
(***************************************************************************)
\* SQL NULL / None: no text, since a text holds one-character strings
NULL == <<"NULL">>

Slash == <<"/">>

\* the stage of the request form (IMAGE_STAGE)
StageName == <<"@", "S">>

ModelNames == {<<"M">>}

ClassNames == {<<"C", "a", "t">>, <<"D">>}

\* file contents (raw bytes) and their digests
Contents == {"b1", "b2"}

\* contents of the images the acquisition provider finds
ScrapedContents == {"b2"}

\* hashlib.sha256(bytes).hexdigest()
Sha256(content) == <<"sha256", content>>

\* images/ under the application directory
ImagesRoot == <<"i", "m", "g">>

OutDir(model_name, class_name) ==
    ImagesRoot \o Slash \o Safe(model_name) \o Slash \o Safe(class_name)

\* admin_delete_class joins the raw names
ClassDir(model_name, class_name) ==
    ImagesRoot \o Slash \o model_name \o Slash \o class_name

StageTarget(stage_name, model_name, class_name) ==
    stage_name \o Slash \o Safe(model_name) \o Slash \o Safe(class_name)

\* a directory a user names in image_source_dir
UserDir == <<"/", "d">>

EmptyDir == <<"/", "e">>

MissingDir == <<"/", "x">>

SourceDirs == {UserDir, EmptyDir, MissingDir}

(***************************************************************************)
(* State.                                                                  *)
(***************************************************************************)
VARIABLES
    AI_MODELS,          \* bag of [MODEL_NAME]
    MODEL_CLASSES,      \* bag of [MODEL_NAME, CLASS_NAME]
    CLASS_EMBEDDINGS,   \* bag of [CLASS_ID, CLASS_NAME, TEXT_VECTOR]
    IMAGE_METADATA,     \* bag of [IMAGE_ID, FILE_PATH, CAPTION, FILE_HASH]
    has_file_hash,      \* IMAGE_METADATA has the FILE_HASH column
    cortex_functions,   \* names listed by SHOW FUNCTIONS IN SCHEMA SNOWFLAKE.CORTEX
    stage_files,        \* files in the stage: set of [path, content]
    local_dirs,         \* directories of the local file system
    local_files,        \* local files: set of [dir, base, content]
    thr,                \* thread -> its request and position
    nops,               \* requests started so far
    nfaults,            \* failures of external calls so far
    issued,             \* history: class ids inserted into CLASS_EMBEDDINGS so far
    reused,             \* history: ids allocated after they had been issued, and inserted
    accepted,           \* history: (model, class) pairs taught by a request that returned
                        \*          success or "training in progress", not deleted since
    last                \* history: the request that returned last, with its result

store == <<AI_MODELS, MODEL_CLASSES, CLASS_EMBEDDINGS, IMAGE_METADATA, has_file_hash,
          cortex_functions>>

files == <<stage_files, local_dirs, local_files>>

history == <<issued, reused, accepted>>

vars == <<store, files, thr, nops, nfaults, history, last>>

Tids == 1..MaxThreads

Idle == [kind |-> "idle", pc |-> "idle"]

\* the thread that serves the next request: the idle one of lowest number
FreeThread(t) == thr[t] = Idle /\ \A u \in Tids : u < t => thr[u] # Idle

NoRequest == [kind |-> "none"]

(***************************************************************************)
(* Rows and queries of the Metadata Store.                                 *)
(***************************************************************************)
ModelRow(model_name) == [MODEL_NAME |-> model_name]

MappingRow(model_name, class_name) ==
    [MODEL_NAME |-> model_name, CLASS_NAME |-> class_name]

\* SNOWFLAKE.CORTEX.EMBED_TEXT_768('snowflake-arctic-embed-m', text)
EmbedText(text) == <<"embedding", text>>

EmbeddingRow(class_id, class_name) ==
    [CLASS_ID |-> class_id, CLASS_NAME |-> class_name, TEXT_VECTOR |-> EmbedText(class_name)]

RECURSIVE SumCopies(_, _)
\* number of rows of table among the rows of the set rows
SumCopies(table, rows) ==
    IF rows = {} THEN 0
    ELSE LET r == CHOOSE x \in rows : TRUE
         IN CopiesIn(r, table) + SumCopies(table, rows \ {r})

\* SELECT COUNT(*) FROM table WHERE the row is one of rows
CountWhere(table, rows) == SumCopies(table, BagToSet(table) \cap rows)

\* DELETE FROM table WHERE the row is one of rows
DeleteWhere(table, rows) == [r \in BagToSet(table) \ rows |-> table[r]]

Insert(table, row) == table (+) SetToBag({row})

RECURSIVE SetMax(_)
SetMax(S) ==
    LET x == CHOOSE y \in S : TRUE
    IN IF S = {x} THEN x
       ELSE LET m == SetMax(S \ {x}) IN IF x > m THEN x ELSE m

\* f"c{next_id_num}"
FormatClassId(n) == <<"c">> \o Decimal(n)

NotC(ch) == ch # "c"

\* CAST(REPLACE(CLASS_ID, 'c', '') AS INTEGER)
ClassIdNumber(class_id) == ParseInt(SelectSeq(class_id, NotC), 0)

\* NVL(MAX(...), 0) ... WHERE STARTSWITH(CLASS_ID, 'c')
MaxClassNumber(embeddings) ==
    LET ids == {r.CLASS_ID : r \in BagToSet(embeddings)}
        nums == {ClassIdNumber(id) : id \in {i \in ids : StartsWith(i, <<"c">>)}}
    IN IF nums = {} THEN 0 ELSE SetMax(nums)

\* the maximum itself, not its successor
NextIdNumSame(max_id_num) == max_id_num

NextIdNum(max_id_num) == max_id_num + 1

\* CustomSnowflake.get_next_class_id
get_next_class_id(embeddings) == FormatClassId(NextIdNum(MaxClassNumber(embeddings)))

(***************************************************************************)
(* Local files and the stage.                                              *)
(***************************************************************************)
\* os.listdir(dir) restricted to files
ListDir(dir) == {f \in local_files : f.dir = dir}

IsDir(dir) == dir \in local_dirs

\* writing a file replaces the file of the same name
WriteFiles(new) ==
    {f \in local_files : ~\E g \in new : g.dir = f.dir /\ g.base = f.base} \cup new

\* PUT 'file://...' stage_target AUTO_COMPRESS=FALSE: a file name that is
\* already in the stage is skipped
PutFiles(staged, fs, stage_target) ==
    staged \cup {[path |-> stage_target \o Slash \o f.base, content |-> f.content] :
                    f \in {g \in fs : ~\E o \in staged :
                                          o.path = stage_target \o Slash \o g.base}}

\* the row of a file when the caption is not passed on
MetadataRowNoCaption(f, stage_target, caption, how) ==
    [IMAGE_ID |-> SplitextRoot(f.base),
     FILE_PATH |-> stage_target \o Slash \o f.base,
     CAPTION |-> SplitextRoot(f.base),
     FILE_HASH |-> IF how = "hash" THEN Sha256(f.content) ELSE NULL]

\* the row insert_image_metadata_from_local_dir builds for a file; how is
\* "hash" for the insert with FILE_HASH, "fallback" for the 3-column insert
MetadataRow(f, stage_target, caption, how) ==
    [IMAGE_ID |-> SplitextRoot(f.base),
     FILE_PATH |-> stage_target \o Slash \o f.base,
     CAPTION |-> IF caption # NULL THEN caption ELSE SplitextRoot(f.base),
     FILE_HASH |-> IF how = "hash" THEN Sha256(f.content) ELSE NULL]

\* file_name = f"{search_query}_{downloaded_count}.{ext}"
ScrapedName(search_query, k) ==
    search_query \o <<"_">> \o Decimal(k) \o <<".", "j", "p", "g">>

(***************************************************************************)
(* Failures of external calls (store, stage, acquisition).                 *)
(***************************************************************************)
Fault == nfaults < MaxFaults /\ nfaults' = nfaults + 1

NoFault == nfaults' = nfaults

(***************************************************************************)
(* Returning from a request.                                               *)
(***************************************************************************)
Returned(t, result) ==
    [kind |-> thr[t].kind, model_name |-> thr[t].model_name,
     class_name |-> thr[t].class_name, result |-> result,
     after_accept |-> thr[t].after_accept]

Finish(t, result) ==
    /\ thr' = [thr EXCEPT ![t] = Idle]
    /\ last' = Returned(t, result)

At(t, kinds, pc) == thr[t].kind \in kinds /\ thr[t].pc = pc

Goto(t, pc) ==
    /\ thr' = [thr EXCEPT ![t].pc = pc]
    /\ UNCHANGED last

(***************************************************************************)
(* teach: the request handler up to the hand-over to teach_workflow or to  *)
(* the background thread.                                                  *)
(***************************************************************************)
\* POST /teach arrives; image_source_dir = <<>> asks for scraping
TeachRequestOf(t, class_names) ==
    /\ FreeThread(t) /\ nops < MaxOps
    /\ \E m \in ModelNames, c \in class_names, src \in SourceDirs \cup {<<>>} :
          thr' = [thr EXCEPT ![t] =
                    [kind |-> "teach", pc |-> "check", model_name |-> m,
                     class_name |-> c, image_source_dir |-> src,
                     after_accept |-> <<m, c>> \in accepted]]
    /\ nops' = nops + 1
    /\ UNCHANGED <<store, files, nfaults, history, last>>

TeachRequest(t) == TeachRequestOf(t, ClassNames)

\* the duplicate check on MODEL_CLASSES, then the choice of the mode
TeachDupCheck(t) ==
    /\ At(t, {"teach"}, "check")
    /\ LET m == thr[t].model_name
           c == thr[t].class_name
           src == thr[t].image_source_dir
           count_val == CopiesIn(MappingRow(m, c), MODEL_CLASSES)
       IN \/ /\ Fault
             /\ Finish(t, "db_error")
             /\ UNCHANGED local_dirs
          \/ /\ NoFault
             /\ count_val > 0
             /\ Finish(t, "duplicate")
             /\ UNCHANGED local_dirs
          \/ /\ NoFault
             /\ count_val = 0
             /\ local_dirs' = local_dirs \cup {OutDir(m, c)}
             /\ IF src = <<>>
                THEN Goto(t, "scrape")
                ELSE IF src \in local_dirs'
                THEN /\ thr' = [thr EXCEPT ![t] =
                                  [kind |-> "teach", pc |-> "add_model", model_name |-> m,
                                   class_name |-> c, src_dir |-> src,
                                   after_accept |-> thr[t].after_accept]]
                     /\ UNCHANGED last
                ELSE Finish(t, "no_images")
    /\ UNCHANGED <<store, stage_files, local_files, nops, history>>

\* scraper.download_google_images into out_dir, then the start of the
\* background thread and the return of the training page: the request
\* thread ends and the background thread takes its place in thr
TeachScrape(t) ==
    /\ At(t, {"teach"}, "scrape")
    /\ LET m == thr[t].model_name
           c == thr[t].class_name
       IN \/ /\ Fault
             /\ Finish(t, "scraper_failed")
             /\ UNCHANGED <<local_files, accepted>>
          \/ \E n \in 1..NumImages :
             \E content \in [0..(n - 1) -> ScrapedContents] :
                /\ NoFault
                /\ local_files' =
                      WriteFiles({[dir |-> OutDir(m, c), base |-> ScrapedName(c, k),
                                   content |-> content[k]] : k \in 0..(n - 1)})
                /\ thr' = [thr EXCEPT
                             ![t] = [kind |-> "bg", pc |-> "add_model", model_name |-> m,
                                     class_name |-> c, src_dir |-> OutDir(m, c),
                                     after_accept |-> thr[t].after_accept]]
                /\ last' = Returned(t, "training")
                /\ accepted' = accepted \cup {<<m, c>>}
    /\ UNCHANGED <<store, stage_files, local_dirs, nops, issued, reused>>

(***************************************************************************)
(* The training steps, run by teach_workflow in the request thread and by  *)
(* _background_train in the background thread.                             *)
(***************************************************************************)
Workers == {"teach", "bg"}

\* the message of a completed teach_workflow
ReturnedOk(t) ==
    [kind |-> thr[t].kind, model_name |-> thr[t].model_name,
     class_name |-> thr[t].class_name, result |-> "ok",
     after_accept |-> thr[t].after_accept, class_id |-> thr[t].class_id,
     uploaded |-> thr[t].uploaded, inserted |-> thr[t].inserted]

\* commit, close and return; a request thread returns success to its caller
Complete(t) ==
    /\ thr' = [thr EXCEPT ![t] = Idle]
    /\ last' = ReturnedOk(t)
    /\ accepted' = IF thr[t].kind = "teach"
                   THEN accepted \cup {<<thr[t].model_name, thr[t].class_name>>}
                   ELSE accepted

\* an exception leaves the steps: rollback (nothing is pending in an
\* autocommit session), close and return
Abort(t) == Finish(t, "error")

\* csf.connect(), then add_model: ensure_model_tables and the existence
\* check; a failure of add_model is swallowed by the caller
AddModelCheck(t) ==
    /\ At(t, Workers, "add_model")
    /\ \/ /\ Fault
          /\ Abort(t)
       \/ /\ Fault
          /\ Goto(t, "next_id")
       \/ /\ NoFault
          /\ IF CopiesIn(ModelRow(thr[t].model_name), AI_MODELS) = 0
             THEN Goto(t, "add_model_insert")
             ELSE Goto(t, "next_id")
    /\ UNCHANGED <<store, files, nops, history>>

\* add_model: the INSERT; its failure is swallowed by the caller
AddModelInsert(t) ==
    /\ At(t, Workers, "add_model_insert")
    /\ \/ /\ NoFault
          /\ AI_MODELS' = Insert(AI_MODELS, ModelRow(thr[t].model_name))
       \/ /\ Fault
          /\ UNCHANGED AI_MODELS
    /\ Goto(t, "next_id")
    /\ UNCHANGED <<MODEL_CLASSES, CLASS_EMBEDDINGS, IMAGE_METADATA, has_file_hash,
                   cortex_functions, files, nops, history>>

\* class_id = csf.get_next_class_id()
GetNextClassId(t) ==
    /\ At(t, Workers, "next_id")
    /\ \/ /\ Fault
          /\ Abort(t)
       \/ /\ NoFault
          /\ LET class_id == get_next_class_id(CLASS_EMBEDDINGS)
             IN thr' = [thr EXCEPT ![t] =
                          [kind |-> thr[t].kind, pc |-> "put_file",
                           model_name |-> thr[t].model_name,
                           class_name |-> thr[t].class_name, src_dir |-> thr[t].src_dir,
                           after_accept |-> thr[t].after_accept,
                           class_id |-> class_id, id_reused |-> class_id \in issued,
                           uploaded |-> 0, inserted |-> 0]]
          /\ UNCHANGED last
    /\ UNCHANGED <<store, files, nops, history>>

\* put_file with the exception of a failing PUT swallowed
PutFileSwallowed(t) ==
    /\ At(t, Workers, "put_file")
    /\ LET fs == ListDir(thr[t].src_dir)
           target == StageTarget(StageName, thr[t].model_name, thr[t].class_name)
       IN \/ /\ fs = {} \/ ~IsDir(thr[t].src_dir)
             /\ NoFault
             /\ Abort(t)
             /\ UNCHANGED stage_files
          \/ /\ fs # {} /\ IsDir(thr[t].src_dir)
             /\ \E done \in SUBSET fs :
                   /\ stage_files' = PutFiles(stage_files, done, target)
                   /\ IF done = fs THEN NoFault ELSE Fault
                   /\ thr' = [thr EXCEPT ![t].pc = "insert_metadata",
                                         ![t].uploaded = Cardinality(done)]
                   /\ UNCHANGED last
    /\ UNCHANGED <<store, local_dirs, local_files, nops, history>>

\* upload_result = csf.put_file(src_dir, stage_target): the files of the
\* directory are put one by one, and a failing PUT ends the loop
PutFile(t) ==
    /\ At(t, Workers, "put_file")
    /\ LET fs == ListDir(thr[t].src_dir)
           target == StageTarget(StageName, thr[t].model_name, thr[t].class_name)
       IN \/ /\ fs = {} \/ ~IsDir(thr[t].src_dir)
             /\ NoFault
             /\ Abort(t)
             /\ UNCHANGED stage_files
          \/ /\ fs # {} /\ IsDir(thr[t].src_dir)
             /\ \E done \in SUBSET fs :
                   /\ stage_files' = PutFiles(stage_files, done, target)
                   /\ IF done = fs
                      THEN /\ NoFault
                           /\ thr' = [thr EXCEPT ![t].pc = "insert_metadata",
                                                 ![t].uploaded = Cardinality(fs)]
                           /\ UNCHANGED last
                      ELSE /\ Fault
                           /\ Abort(t)
    /\ UNCHANGED <<store, local_dirs, local_files, nops, history>>

\* inserted = csf.insert_image_metadata_from_local_dir(src_dir, stage_target,
\*                                                     caption=class_name)
\* ALTER TABLE ... ADD COLUMN FILE_HASH with its errors ignored; then per
\* row the insert with the hash, else the 3-column insert, else the
\* exception leaves the loop; then commit
InsertMetadata(t) ==
    /\ At(t, Workers, "insert_metadata")
    /\ LET fs == ListDir(thr[t].src_dir)
           target == StageTarget(StageName, thr[t].model_name, thr[t].class_name)
       IN \/ /\ ~IsDir(thr[t].src_dir)
             /\ NoFault
             /\ Abort(t)
             /\ UNCHANGED <<IMAGE_METADATA, has_file_hash>>
          \/ /\ IsDir(thr[t].src_dir) /\ fs = {}
             /\ NoFault
             /\ Goto(t, "add_class_embedding")
             /\ UNCHANGED <<IMAGE_METADATA, has_file_hash>>
          \/ /\ IsDir(thr[t].src_dir) /\ fs # {}
             /\ \E alter_ok \in BOOLEAN, done \in SUBSET fs :
                \E how \in [done -> {"hash", "fallback"}] :
                   LET failures == (IF has_file_hash \/ alter_ok THEN 0 ELSE 1)
                                   + (IF done = fs THEN 0 ELSE 1)
                                   + Cardinality({f \in done : how[f] = "fallback"
                                                     /\ (has_file_hash \/ alter_ok)})
                   IN /\ has_file_hash' = (has_file_hash \/ alter_ok)
                      /\ \A f \in done : how[f] = "hash" => has_file_hash'
                      /\ nfaults + failures <= MaxFaults
                      /\ nfaults' = nfaults + failures
                      /\ IMAGE_METADATA' =
                            IMAGE_METADATA (+)
                            SetToBag({MetadataRow(f, target, thr[t].class_name, how[f]) :
                                         f \in done})
                      /\ IF done = fs
                         THEN /\ thr' = [thr EXCEPT ![t].pc = "add_class_embedding",
                                                    ![t].inserted = Cardinality(fs)]
                              /\ UNCHANGED last
                         ELSE Abort(t)
    /\ UNCHANGED <<AI_MODELS, MODEL_CLASSES, CLASS_EMBEDDINGS, cortex_functions, files,
                   nops, history>>

\* add_class_embedding: the check for an existing embedding of the class name
AddClassEmbeddingCheck(t) ==
    /\ At(t, Workers, "add_class_embedding")
    /\ \/ /\ Fault
          /\ Abort(t)
       \/ /\ NoFault
          /\ IF CountWhere(CLASS_EMBEDDINGS,
                        {r \in BagToSet(CLASS_EMBEDDINGS) :
                            r.CLASS_NAME = thr[t].class_name}) > 0
             THEN Goto(t, "add_class_to_model")
             ELSE Goto(t, "add_class_embedding_insert")
    /\ UNCHANGED <<store, files, nops, history>>

\* add_class_embedding: INSERT INTO CLASS_EMBEDDINGS ... EMBED_TEXT_768
AddClassEmbeddingInsert(t) ==
    /\ At(t, Workers, "add_class_embedding_insert")
    /\ \/ /\ Fault
          /\ Abort(t)
          /\ UNCHANGED <<CLASS_EMBEDDINGS, issued, reused>>
       \/ /\ NoFault
          /\ CLASS_EMBEDDINGS' =
                Insert(CLASS_EMBEDDINGS, EmbeddingRow(thr[t].class_id, thr[t].class_name))
          /\ issued' = issued \cup {thr[t].class_id}
          /\ reused' = IF thr[t].id_reused THEN reused \cup {thr[t].class_id} ELSE reused
          /\ Goto(t, "add_class_to_model")
    /\ UNCHANGED <<AI_MODELS, MODEL_CLASSES, IMAGE_METADATA, has_file_hash,
                   cortex_functions, files, nops, accepted>>

\* add_class_to_model: the existence check; a failure is swallowed and the
\* workflow commits and returns
AddClassToModelCheck(t) ==
    /\ At(t, Workers, "add_class_to_model")
    /\ \/ /\ Fault
          /\ Complete(t)
       \/ /\ NoFault
          /\ CopiesIn(MappingRow(thr[t].model_name, thr[t].class_name), MODEL_CLASSES) > 0
          /\ Complete(t)
       \/ /\ NoFault
          /\ CopiesIn(MappingRow(thr[t].model_name, thr[t].class_name), MODEL_CLASSES) = 0
          /\ Goto(t, "add_class_to_model_insert")
          /\ UNCHANGED accepted
    /\ UNCHANGED <<store, files, nops, issued, reused>>

\* add_class_to_model: the INSERT, its failure swallowed; then commit,
\* close and return
AddClassToModelInsert(t) ==
    /\ At(t, Workers, "add_class_to_model_insert")
    /\ \/ /\ NoFault
          /\ MODEL_CLASSES' =
                Insert(MODEL_CLASSES, MappingRow(thr[t].model_name, thr[t].class_name))
       \/ /\ Fault
          /\ UNCHANGED MODEL_CLASSES
    /\ Complete(t)
    /\ UNCHANGED <<AI_MODELS, CLASS_EMBEDDINGS, IMAGE_METADATA, has_file_hash,
                   cortex_functions, files, nops, issued, reused>>

(***************************************************************************)
(* admin_delete_class.                                                     *)
(***************************************************************************)
AdminDeleteClassRequest(t) ==
    /\ FreeThread(t) /\ nops < MaxOps
    /\ \E m \in ModelNames, c \in ClassNames :
          /\ thr' = [thr EXCEPT ![t] =
                       [kind |-> "delete_class", pc |-> "delete_embeddings",
                        model_name |-> m, class_name |-> c, after_accept |-> FALSE]]
          /\ accepted' = accepted \ {<<m, c>>}
    /\ nops' = nops + 1
    /\ UNCHANGED <<store, files, nfaults, issued, reused, last>>

\* DELETE FROM CLASS_EMBEDDINGS WHERE CLASS_NAME = class_name
DeleteClassEmbeddings(t) ==
    /\ At(t, {"delete_class"}, "delete_embeddings")
    /\ \/ /\ Fault
          /\ Finish(t, "error")
          /\ UNCHANGED CLASS_EMBEDDINGS
       \/ /\ NoFault
          /\ CLASS_EMBEDDINGS' =
                DeleteWhere(CLASS_EMBEDDINGS,
                            {r \in BagToSet(CLASS_EMBEDDINGS) :
                                r.CLASS_NAME = thr[t].class_name})
          /\ Goto(t, "delete_mapping")
    /\ UNCHANGED <<AI_MODELS, MODEL_CLASSES, IMAGE_METADATA, has_file_hash,
                   cortex_functions, files, nops, history>>

\* DELETE FROM MODEL_CLASSES WHERE MODEL_NAME = model_name AND CLASS_NAME = class_name
DeleteClassMapping(t) ==
    /\ At(t, {"delete_class"}, "delete_mapping")
    /\ \/ /\ Fault
          /\ Finish(t, "error")
          /\ UNCHANGED MODEL_CLASSES
       \/ /\ NoFault
          /\ MODEL_CLASSES' =
                DeleteWhere(MODEL_CLASSES,
                            {MappingRow(thr[t].model_name, thr[t].class_name)})
          /\ Goto(t, "delete_files")
    /\ UNCHANGED <<AI_MODELS, CLASS_EMBEDDINGS, IMAGE_METADATA, has_file_hash,
                   cortex_functions, files, nops, history>>

\* the files and the directory images/<model_name>/<class_name>
DeleteClassFiles(t) ==
    /\ At(t, {"delete_class"}, "delete_files")
    /\ LET class_dir == ClassDir(thr[t].model_name, thr[t].class_name)
       IN /\ local_files' = {f \in local_files : f.dir # class_dir}
          /\ local_dirs' = local_dirs \ {class_dir}
    /\ Finish(t, "deleted")
    /\ UNCHANGED <<store, stage_files, nops, nfaults, history>>

(***************************************************************************)
(* admin_delete_model.                                                     *)
(***************************************************************************)
AdminDeleteModelRequest(t) ==
    /\ FreeThread(t) /\ nops < MaxOps
    /\ \E m \in ModelNames :
          /\ thr' = [thr EXCEPT ![t] =
                       [kind |-> "delete_model", pc |-> "delete_mappings",
                        model_name |-> m, class_name |-> NULL, after_accept |-> FALSE]]
          /\ accepted' = {p \in accepted : p[1] # m}
    /\ nops' = nops + 1
    /\ UNCHANGED <<store, files, nfaults, issued, reused, last>>

\* DELETE FROM MODEL_CLASSES WHERE MODEL_NAME = model_name
DeleteModelMappings(t) ==
    /\ At(t, {"delete_model"}, "delete_mappings")
    /\ \/ /\ Fault
          /\ Finish(t, "error")
          /\ UNCHANGED MODEL_CLASSES
       \/ /\ NoFault
          /\ MODEL_CLASSES' =
                DeleteWhere(MODEL_CLASSES,
                            {r \in BagToSet(MODEL_CLASSES) :
                                r.MODEL_NAME = thr[t].model_name})
          /\ Goto(t, "delete_model_row")
    /\ UNCHANGED <<AI_MODELS, CLASS_EMBEDDINGS, IMAGE_METADATA, has_file_hash,
                   cortex_functions, files, nops, history>>

\* DELETE FROM AI_MODELS WHERE MODEL_NAME = model_name
DeleteModelRow(t) ==
    /\ At(t, {"delete_model"}, "delete_model_row")
    /\ \/ /\ Fault
          /\ Finish(t, "error")
          /\ UNCHANGED AI_MODELS
       \/ /\ NoFault
          /\ AI_MODELS' = DeleteWhere(AI_MODELS, {ModelRow(thr[t].model_name)})
          /\ Goto(t, "delete_model_files")
    /\ UNCHANGED <<MODEL_CLASSES, CLASS_EMBEDDINGS, IMAGE_METADATA, has_file_hash,
                   cortex_functions, files, nops, history>>

\* dir is images/<model_name> or a directory under it
UnderModelDir(dir, model_name) ==
    \/ dir = ImagesRoot \o Slash \o model_name
    \/ StartsWith(dir, ImagesRoot \o Slash \o model_name \o Slash)

\* os.walk(images/<model_name>, topdown=False): the files and directories
DeleteModelFiles(t) ==
    /\ At(t, {"delete_model"}, "delete_model_files")
    /\ local_files' = {f \in local_files : ~UnderModelDir(f.dir, thr[t].model_name)}
    /\ local_dirs' = {d \in local_dirs : ~UnderModelDir(d, thr[t].model_name)}
    /\ Finish(t, "deleted")
    /\ UNCHANGED <<store, stage_files, nops, nfaults, history>>

(***************************************************************************)
(* admin_cleanup_images.                                                   *)
(***************************************************************************)
\* os.path.dirname
Dirname(path) == SubSeq(path, 1, LastSlash(path) - 1)

\* the class directories images/<model>/<class> and their model directories
ClassDirs == {d \in local_dirs : StartsWith(d, ImagesRoot \o Slash)}

ModelDirs == {Dirname(d) : d \in ClassDirs}

\* root != images_dir and os.path.basename(root) not in valid_class_names
NotValid(root, valid_class_names) == Basename(root) \notin valid_class_names

\* the class directories the walk removes below the model directory
RemovedBelow(model_dir, valid_class_names) ==
    {d \in ClassDirs : Dirname(d) = model_dir /\ NotValid(d, valid_class_names)}

\* os.rmdir of the model directory raises: a class directory is left in it
RmdirRaises(model_dir, valid_class_names) ==
    /\ NotValid(model_dir, valid_class_names)
    /\ \E d \in ClassDirs : Dirname(d) = model_dir /\ ~NotValid(d, valid_class_names)

\* the orders os.walk may list the model directories in
WalkOrders == {o \in [1..Cardinality(ModelDirs) -> ModelDirs] :
                 \A i, j \in DOMAIN o : o[i] = o[j] => i = j}

\* the model directories the walk visits: those up to the first one whose
\* os.rmdir raises
Visited(order, valid_class_names) ==
    {order[i] : i \in {j \in DOMAIN order :
                         \A k \in 1..(j - 1) : ~RmdirRaises(order[k], valid_class_names)}}

\* POST /admin/cleanup_images
AdminCleanupRequest(t) ==
    /\ FreeThread(t) /\ nops < MaxOps
    /\ thr' = [thr EXCEPT ![t] =
                 [kind |-> "cleanup", pc |-> "select", model_name |-> NULL,
                  class_name |-> NULL, after_accept |-> FALSE]]
    /\ nops' = nops + 1
    /\ UNCHANGED <<store, files, nfaults, history, last>>

\* SELECT DISTINCT CLASS_NAME FROM MODEL_CLASSES
CleanupSelect(t) ==
    /\ At(t, {"cleanup"}, "select")
    /\ \/ /\ Fault
          /\ Finish(t, "error")
       \/ /\ NoFault
          /\ thr' = [thr EXCEPT ![t] =
                       [kind |-> "cleanup", pc |-> "walk", model_name |-> NULL,
                        class_name |-> NULL, after_accept |-> FALSE,
                        valid_class_names |->
                           {r.CLASS_NAME : r \in BagToSet(MODEL_CLASSES)}]]
          /\ UNCHANGED last
    /\ UNCHANGED <<store, files, nops, history>>

\* os.walk(images_dir, topdown=False): the class directories of a model
\* directory, then the model directory; an exception of os.rmdir ends the walk
CleanupWalk(t) ==
    /\ At(t, {"cleanup"}, "walk")
    /\ \E order \in WalkOrders :
          LET valid == thr[t].valid_class_names
              seen == Visited(order, valid)
              removed == UNION {RemovedBelow(m, valid) : m \in seen}
          IN /\ local_dirs' = local_dirs \ removed
             /\ local_files' = {f \in local_files : f.dir \notin removed}
             /\ Finish(t, IF \E m \in seen : RmdirRaises(m, valid)
                          THEN "error" ELSE "cleaned")
    /\ UNCHANGED <<store, stage_files, nops, nfaults, history>>

(***************************************************************************)
(* run_classification_on_uploaded.                                         *)
(***************************************************************************)
\* scores of the fallback tiers, in hundredths
PathScore == 100

BasenameScore == 95

HashScore == 98

\* LIMIT of the classification query
TopK == 5

\* sub in s
Contains(s, sub) ==
    \E k \in 0..(Len(s) - Len(sub)) : SubSeq(s, k + 1, k + Len(sub)) = sub

IsImageEmbed(candidate) ==
    /\ Contains(Upper(candidate), <<"E", "M", "B", "E", "D">>)
    /\ Contains(Upper(candidate), <<"I", "M", "A", "G", "E">>)

\* the first function name with EMBED and IMAGE in it, None when there is none
DiscoverImgFn(fn_names) ==
    IF \E i \in 1..Len(fn_names) : IsImageEmbed(fn_names[i])
    THEN fn_names[CHOOSE i \in 1..Len(fn_names) :
                     /\ IsImageEmbed(fn_names[i])
                     /\ \A j \in 1..(i - 1) : ~IsImageEmbed(fn_names[j])]
    ELSE NULL

\* Python truth of a fetched CAPTION
Truthy(caption) == caption # NULL /\ caption # <<>>

\* ... WHERE FILE_PATH = stage_file
PathRows(stage_file) == {r \in BagToSet(IMAGE_METADATA) : r.FILE_PATH = stage_file}

\* ... WHERE FILE_PATH LIKE '%'
BasenameRowsAny(basename) ==
    {r \in BagToSet(IMAGE_METADATA) : Like(r.FILE_PATH, <<"%">>)}

\* ... WHERE FILE_PATH LIKE '%/<basename>'
BasenameRows(basename) ==
    {r \in BagToSet(IMAGE_METADATA) : Like(r.FILE_PATH, <<"%", "/">> \o basename)}

\* ... WHERE FILE_HASH = file_hash AND FALSE
HashRowsNone(file_hash) == {r \in BagToSet(IMAGE_METADATA) : FALSE}

\* ... WHERE FILE_HASH = file_hash
HashRows(file_hash) == {r \in BagToSet(IMAGE_METADATA) : r.FILE_HASH = file_hash}

\* the rows of the query without the join
CandidatesUnjoined(model_name, sim) ==
    LET ce == BagToSet(CLASS_EMBEDDINGS)
    IN [row \in {<<r.CLASS_NAME, sim[r.TEXT_VECTOR]>> : r \in ce} |->
           SumCopies(CLASS_EMBEDDINGS,
                     {r \in ce : r.CLASS_NAME = row[1] /\ sim[r.TEXT_VECTOR] = row[2]})]

\* the rows of the classification query before ORDER BY: CLASS_EMBEDDINGS,
\* joined with the MODEL_CLASSES rows of model_name when a model is given
Candidates(model_name, sim) ==
    LET ce == BagToSet(CLASS_EMBEDDINGS)
        copies(r) ==
            IF model_name # NULL /\ model_name # <<>>
            THEN CLASS_EMBEDDINGS[r] * CopiesIn(MappingRow(model_name, r.CLASS_NAME),
                                                 MODEL_CLASSES)
            ELSE CLASS_EMBEDDINGS[r]
        scored == {<<r.CLASS_NAME, sim[r.TEXT_VECTOR]>> : r \in ce}
    IN [row \in {x \in scored : \E r \in ce : x[1] = r.CLASS_NAME /\ copies(r) > 0} |->
           SumCopies([r \in ce |-> copies(r)],
                     {r \in ce : r.CLASS_NAME = row[1] /\ sim[r.TEXT_VECTOR] = row[2]})]

\* a row an ascending order puts first
OrderedLowest(rows, r) == \A q \in rows : q[2] >= r[2]

\* a row the ORDER BY may put first: none of the rows has a higher score
OrderedFirst(rows, r) == \A q \in rows : q[2] <= r[2]

RECURSIVE OrderByDescLimit(_, _)
\* ORDER BY similarity_score DESC LIMIT k: the results the store may return,
\* rows of equal score in any order
OrderByDescLimit(bag, k) ==
    IF k = 0 \/ BagToSet(bag) = {} THEN {<<>>}
    ELSE UNION {{<<r>> \o rest : rest \in OrderByDescLimit(bag (-) SetToBag({r}), k - 1)} :
                   r \in {x \in BagToSet(bag) : OrderedFirst(BagToSet(bag), x)}}

ReturnedClassify(t, result, rows) ==
    [kind |-> "classify", result |-> result, rows |-> rows,
     tmp_path |-> thr[t].tmp_path, content |-> thr[t].content,
     stage_name_detect |-> thr[t].stage_name_detect, model_name |-> thr[t].model_name,
     img_fn |-> thr[t].img_fn, failed |-> thr[t].failed, sim |-> thr[t].sim,
     counts |-> thr[t].counts]

FinishClassify(t, result, rows) ==
    /\ thr' = [thr EXCEPT ![t] = Idle]
    /\ last' = ReturnedClassify(t, result, rows)

\* run_classification_on_uploaded(tmp_path, stage_name_detect, model_name)
\* is called for an image saved under tmp_path
ClassifyRequest(t, tmp_paths, contents, stages, models) ==
    /\ FreeThread(t) /\ nops < MaxOps
    /\ \E tmp_path \in tmp_paths, content \in contents, stage \in stages, m \in models :
          thr' = [thr EXCEPT ![t] =
                    [kind |-> "classify", pc |-> "upload", tmp_path |-> tmp_path,
                     content |-> content, stage_name_detect |-> stage, model_name |-> m,
                     img_fn |-> NULL, failed |-> FALSE, sim |-> <<>>, counts |-> <<>>]]
    /\ nops' = nops + 1
    /\ UNCHANGED <<store, files, nfaults, history, last>>

\* put_file(tmp_path, stage_name_detect), then the discovery of an
\* image-embedding function; a failed discovery finds none
ClassifyUpload(t) ==
    /\ At(t, {"classify"}, "upload")
    /\ LET base == Basename(thr[t].tmp_path)
           put == PutFiles(stage_files, {[base |-> base, content |-> thr[t].content]},
                           thr[t].stage_name_detect)
       IN \/ /\ Fault
             /\ thr' = [thr EXCEPT ![t] = Idle]
             /\ last' = ReturnedClassify(t, "upload_failed", <<>>)
             /\ UNCHANGED stage_files
          \/ /\ Fault
             /\ stage_files' = put
             /\ thr' = [thr EXCEPT ![t].pc = "path", ![t].img_fn = NULL]
             /\ UNCHANGED last
          \/ /\ NoFault
             /\ stage_files' = put
             /\ LET img_fn == DiscoverImgFn(cortex_functions)
                IN thr' = [thr EXCEPT ![t].pc = IF img_fn = NULL THEN "path" ELSE "vector",
                                      ![t].img_fn = img_fn]
             /\ UNCHANGED last
    /\ UNCHANGED <<store, local_dirs, local_files, nops, history>>

\* the answer of a fallback tier: rows[0] of the rows the query matched
TierAnswer(t, rows, score, next_pc) ==
    IF rows = {}
    THEN Goto(t, next_pc)
    ELSE \E first \in rows :
            IF Truthy(first.CAPTION)
            THEN FinishClassify(t, "ok", <<<<first.CAPTION, score>>>>)
            ELSE Goto(t, next_pc)

\* a failed query of the fallback ends the call with the error of the query
TierRaised(t) ==
    /\ Fault
    /\ thr' = [thr EXCEPT ![t] = Idle]
    /\ last' = [ReturnedClassify(t, "error", <<>>) EXCEPT !.failed = TRUE]

\* a query of the fallback failed: the fallback is given up and the
\* "no image-embedding function and no exact match" error is raised
TierFailed(t) ==
    /\ Fault
    /\ thr' = [thr EXCEPT ![t] = Idle]
    /\ last' = [ReturnedClassify(t, "no_match", <<>>) EXCEPT !.failed = TRUE]

\* tier 1 followed by the hash tier
ClassifyPathThenHash(t) ==
    /\ At(t, {"classify"}, "path")
    /\ \/ TierFailed(t)
       \/ /\ NoFault
          /\ TierAnswer(t, PathRows(thr[t].stage_name_detect \o Slash
                                       \o Basename(thr[t].tmp_path)),
                        PathScore, "hash")
    /\ UNCHANGED <<store, files, nops, history>>

\* tier 1: the exact stage path of the uploaded file
ClassifyPath(t) ==
    /\ At(t, {"classify"}, "path")
    /\ \/ TierFailed(t)
       \/ /\ NoFault
          /\ TierAnswer(t, PathRows(thr[t].stage_name_detect \o Slash
                                       \o Basename(thr[t].tmp_path)),
                        PathScore, "basename")
    /\ UNCHANGED <<store, files, nops, history>>

\* tier 2: the same file name anywhere in the stage
ClassifyBasename(t) ==
    /\ At(t, {"classify"}, "basename")
    /\ \/ TierFailed(t)
       \/ /\ NoFault
          /\ TierAnswer(t, BasenameRows(Basename(thr[t].tmp_path)), BasenameScore, "hash")
    /\ UNCHANGED <<store, files, nops, history>>

\* tier 3: the content hash; a failure of this query (no FILE_HASH column)
\* is ignored, and with no match the error is raised
ClassifyHash(t) ==
    /\ At(t, {"classify"}, "hash")
    /\ \/ TierFailed(t)
       \/ /\ NoFault
          /\ ~has_file_hash
          /\ FinishClassify(t, "no_match", <<>>)
       \/ /\ NoFault
          /\ has_file_hash
          /\ LET rows == HashRows(Sha256(thr[t].content))
             IN IF rows = {}
                THEN FinishClassify(t, "no_match", <<>>)
                ELSE \E first \in rows :
                        IF Truthy(first.CAPTION)
                        THEN FinishClassify(t, "ok", <<<<first.CAPTION, HashScore>>>>)
                        ELSE FinishClassify(t, "no_match", <<>>)
    /\ UNCHANGED <<store, files, nops, history>>

\* if False (mutation of the test below)
NoRowsNever(rows) == FALSE

\* if not rows
NoRows(rows) == rows = <<>>

\* the similarity query; sim is VECTOR_COSINE_SIMILARITY of the image
\* vector with each stored TEXT_VECTOR.  A failure of the query and an
\* empty result are followed by the two diagnostic counts
ClassifyVector(t) ==
    /\ At(t, {"classify"}, "vector")
    /\ \/ /\ Fault
          /\ thr' = [thr EXCEPT ![t].pc = "count_all", ![t].failed = TRUE]
          /\ UNCHANGED last
       \/ /\ NoFault
          /\ \E sim \in [{r.TEXT_VECTOR : r \in BagToSet(CLASS_EMBEDDINGS)} -> 0..MaxScore] :
             \E rows \in OrderByDescLimit(Candidates(thr[t].model_name, sim), TopK) :
                IF NoRows(rows)
                THEN /\ thr' = [thr EXCEPT ![t].pc = "count_all", ![t].sim = sim]
                     /\ UNCHANGED last
                ELSE /\ thr' = [thr EXCEPT ![t] = Idle]
                     /\ last' = [ReturnedClassify(t, "ok", rows) EXCEPT !.sim = sim]
    /\ UNCHANGED <<store, files, nops, history>>

\* a diagnostic count failed: after a failed query the message goes without
\* the counts, after an empty result the failure of the count is raised
CountFailed(t) ==
    /\ Fault
    /\ FinishClassify(t, IF thr[t].failed THEN "sql_failed" ELSE "count_failed", <<>>)

\* SELECT COUNT(*) FROM CLASS_EMBEDDINGS
ClassifyCountAll(t) ==
    /\ At(t, {"classify"}, "count_all")
    /\ \/ CountFailed(t)
       \/ /\ NoFault
          /\ thr' = [thr EXCEPT ![t].pc = "count_vectors",
                                ![t].counts =
                                   <<CountWhere(CLASS_EMBEDDINGS, BagToSet(CLASS_EMBEDDINGS))>>]
          /\ UNCHANGED last
    /\ UNCHANGED <<store, files, nops, history>>

\* SELECT COUNT(*) FROM CLASS_EMBEDDINGS WHERE TEXT_VECTOR IS NOT NULL, then
\* the RuntimeError with both counts
ClassifyCountVectors(t) ==
    /\ At(t, {"classify"}, "count_vectors")
    /\ \/ CountFailed(t)
       \/ /\ NoFault
          /\ thr' = [thr EXCEPT ![t] = Idle]
          /\ last' = [ReturnedClassify(t, IF thr[t].failed THEN "sql_failed" ELSE "no_rows",
                                       <<>>)
                        EXCEPT !.counts =
                           thr[t].counts
                              \o <<CountWhere(CLASS_EMBEDDINGS,
                                              {r \in BagToSet(CLASS_EMBEDDINGS) :
                                                  r.TEXT_VECTOR # NULL})>>]
    /\ UNCHANGED <<store, files, nops, history>>

(***************************************************************************)
(* The application under concurrent teach and delete requests.             *)
(***************************************************************************)
Init ==
    /\ AI_MODELS = EmptyBag
    /\ MODEL_CLASSES = EmptyBag
    /\ CLASS_EMBEDDINGS = EmptyBag
    /\ IMAGE_METADATA = EmptyBag
    /\ has_file_hash = FALSE
    /\ cortex_functions = <<>>
    /\ stage_files = {}
    /\ local_dirs = {UserDir, EmptyDir}
    /\ local_files = {[dir |-> UserDir, base |-> <<"a", ".", "j", "p", "g">>,
                       content |-> "b1"]}
    /\ thr = [t \in Tids |-> Idle]
    /\ nops = 0
    /\ nfaults = 0
    /\ issued = {}
    /\ reused = {}
    /\ accepted = {}
    /\ last = NoRequest

Next ==
    \E t \in Tids :
       \/ TeachRequest(t)
       \/ TeachDupCheck(t)
       \/ TeachScrape(t)
       \/ AddModelCheck(t)
       \/ AddModelInsert(t)
       \/ GetNextClassId(t)
       \/ PutFile(t)
       \/ InsertMetadata(t)
       \/ AddClassEmbeddingCheck(t)
       \/ AddClassEmbeddingInsert(t)
       \/ AddClassToModelCheck(t)
       \/ AddClassToModelInsert(t)
       \/ AdminDeleteClassRequest(t)
       \/ DeleteClassEmbeddings(t)
       \/ DeleteClassMapping(t)
       \/ DeleteClassFiles(t)

Spec == Init /\ [][Next]_vars

(***************************************************************************)
(* Stores the application reaches by teaching classes one after the other  *)
(* from a source directory and deleting some of them, as starting points   *)
(* of the specifications below.                                            *)
(***************************************************************************)
TheModel == <<"M">>

OtherModel == <<"N">>

\* the name of the i-th class taught
TaughtName(i) == <<"k">> \o Decimal(i)

TheFile == [dir |-> UserDir, base |-> <<"a", ".", "j", "p", "g">>, content |-> "b1"]

\* n classes were taught in turn and those of kept are still there
TaughtStore(n, kept, model_of) ==
    /\ AI_MODELS = SetToBag({ModelRow(model_of[i]) : i \in 1..n})
    /\ MODEL_CLASSES = SetToBag({MappingRow(model_of[i], TaughtName(i)) : i \in kept})
    /\ CLASS_EMBEDDINGS =
          SetToBag({EmbeddingRow(FormatClassId(i), TaughtName(i)) : i \in kept})
    /\ IMAGE_METADATA =
          SetToBag({MetadataRow(TheFile, StageTarget(StageName, model_of[i], TaughtName(i)),
                                TaughtName(i), "hash") : i \in 1..n})
    /\ has_file_hash = (n > 0)
    /\ stage_files =
          {[path |-> StageTarget(StageName, model_of[i], TaughtName(i)) \o Slash
                        \o TheFile.base,
            content |-> TheFile.content] : i \in 1..n}
    /\ local_dirs = {UserDir, EmptyDir} \cup {OutDir(model_of[i], TaughtName(i)) : i \in 1..n}
    /\ local_files = {TheFile}
    /\ issued = {FormatClassId(i) : i \in 1..n}
    /\ reused = {}
    /\ accepted = {<<model_of[i], TaughtName(i)>> : i \in kept}

\* one more request is served
OneRequest ==
    /\ thr = [t \in Tids |-> Idle]
    /\ nops = MaxOps - 1
    /\ nfaults = 0
    /\ last = NoRequest

(***************************************************************************)
(* A teach request on a store whose class ids reach two digits.            *)
(***************************************************************************)
InitNextId ==
    /\ \E kept \in {S \in SUBSET (1..MaxId) : Cardinality(S) <= 2} :
          TaughtStore(SetMax(kept \cup {0}), kept, [i \in 1..MaxId |-> TheModel])
    /\ cortex_functions = <<>>
    /\ OneRequest

NextTeach ==
    \E t \in Tids :
       \/ TeachRequest(t)
       \/ TeachDupCheck(t)
       \/ TeachScrape(t)
       \/ AddModelCheck(t)
       \/ AddModelInsert(t)
       \/ GetNextClassId(t)
       \/ PutFile(t)
       \/ InsertMetadata(t)
       \/ AddClassEmbeddingCheck(t)
       \/ AddClassEmbeddingInsert(t)
       \/ AddClassToModelCheck(t)
       \/ AddClassToModelInsert(t)

SpecNextId == InitNextId /\ [][NextTeach]_vars

(***************************************************************************)
(* A classification request on a store of image records.                   *)
(***************************************************************************)
TextFn == <<"E", "M", "B", "E", "D", "_", "T", "E", "X", "T">>

ImageFn == <<"e", "m", "b", "e", "d", "_", "I", "M", "A", "G", "E">>

FunctionLists == {<<>>, <<TextFn>>, <<TextFn, ImageFn>>}

UploadNames == {<<"a", "_", "c">>, <<"a", "b", "c">>, <<"z">>}

TmpDir == <<"/", "t">>

\* the image records teach may have written for the classes of ClassNames
RecordUniverse ==
    {MetadataRow([base |-> base, content |-> content],
                 StageTarget(StageName, TheModel, c), c, how) :
        base \in UploadNames \ {<<"z">>}, content \in Contents, c \in ClassNames,
        how \in {"hash", "fallback"}}

RECURSIVE SeqOfSet(_)
SeqOfSet(S) ==
    IF S = {} THEN <<>>
    ELSE LET x == CHOOSE y \in S : TRUE IN <<x>> \o SeqOfSet(S \ {x})

InitFallback ==
    /\ \E records \in {S \in SUBSET RecordUniverse : Cardinality(S) <= 2} :
       \E column \in BOOLEAN :
          /\ ~column => \A r \in records : r.FILE_HASH = NULL
          /\ IMAGE_METADATA = SetToBag(records)
          /\ has_file_hash = column
          /\ LET classes == SeqOfSet({r.CAPTION : r \in records})
             IN /\ AI_MODELS = SetToBag({ModelRow(TheModel) : r \in records})
                /\ MODEL_CLASSES =
                      SetToBag({MappingRow(TheModel, r.CAPTION) : r \in records})
                /\ CLASS_EMBEDDINGS =
                      SetToBag({EmbeddingRow(FormatClassId(k), classes[k]) :
                                   k \in 1..Len(classes)})
                /\ issued = {FormatClassId(k) : k \in 1..Len(classes)}
                /\ accepted = {<<TheModel, r.CAPTION>> : r \in records}
          /\ stage_files = {[path |-> r.FILE_PATH, content |-> "b1"] : r \in records}
    /\ cortex_functions \in FunctionLists
    /\ local_dirs = {UserDir, EmptyDir}
    /\ local_files = {TheFile}
    /\ reused = {}
    /\ OneRequest

NextClassify(tmp_paths, contents, stages, models) ==
    \E t \in Tids :
       \/ ClassifyRequest(t, tmp_paths, contents, stages, models)
       \/ ClassifyUpload(t)
       \/ ClassifyPath(t)
       \/ ClassifyBasename(t)
       \/ ClassifyHash(t)
       \/ ClassifyVector(t)
       \/ ClassifyCountAll(t)
       \/ ClassifyCountVectors(t)

NextFallback ==
    NextClassify({TmpDir \o Slash \o base : base \in UploadNames}, Contents,
                 {StageName, StageTarget(StageName, TheModel, <<"D">>)},
                 {NULL, TheModel})

SpecFallback == InitFallback /\ [][NextFallback]_vars

(***************************************************************************)
(* A classification request on a store of more classes than the query      *)
(* returns.                                                                *)
(***************************************************************************)
ModelOf == [i \in 1..MaxRows |-> IF i % 2 = 1 THEN TheModel ELSE OtherModel]

InitVector ==
    /\ \E n \in 0..MaxRows : TaughtStore(n, 1..n, ModelOf)
    /\ cortex_functions = <<TextFn, ImageFn>>
    /\ OneRequest

NextVector ==
    NextClassify({TmpDir \o Slash \o <<"z">>}, {"b1"}, {StageName},
                 {NULL, <<>>, TheModel, OtherModel})

SpecVector == InitVector /\ [][NextVector]_vars

(***************************************************************************)
(* A teach request on an empty store or on the store that teaching class   *)
(* k1 of model M has left, the user's directory holding two files.         *)
(***************************************************************************)
OtherFile == [dir |-> UserDir, base |-> <<"b", ".", "j", "p", "g">>, content |-> "b2"]

TwoFiles == {TheFile, OtherFile}

\* the tables before the request; taught tells whether k1 was taught
OriginTables(taught) ==
    LET kept == IF taught THEN {1} ELSE {}
    IN [AI_MODELS |-> SetToBag({ModelRow(TheModel) : i \in kept}),
        MODEL_CLASSES |-> SetToBag({MappingRow(TheModel, TaughtName(i)) : i \in kept}),
        CLASS_EMBEDDINGS |->
           SetToBag({EmbeddingRow(FormatClassId(i), TaughtName(i)) : i \in kept}),
        IMAGE_METADATA |->
           SetToBag({MetadataRow(TheFile, StageTarget(StageName, TheModel, TaughtName(i)),
                                 TaughtName(i), "hash") : i \in kept})]

InitOneTeach ==
    /\ \E taught \in BOOLEAN :
          /\ AI_MODELS = OriginTables(taught).AI_MODELS
          /\ MODEL_CLASSES = OriginTables(taught).MODEL_CLASSES
          /\ CLASS_EMBEDDINGS = OriginTables(taught).CLASS_EMBEDDINGS
          /\ IMAGE_METADATA = OriginTables(taught).IMAGE_METADATA
          /\ has_file_hash \in (IF taught THEN {TRUE} ELSE BOOLEAN)
          /\ stage_files =
                IF taught
                THEN PutFiles({}, {TheFile}, StageTarget(StageName, TheModel, TaughtName(1)))
                ELSE {}
          /\ local_dirs = {UserDir, EmptyDir}
                          \cup (IF taught THEN {OutDir(TheModel, TaughtName(1))} ELSE {})
          /\ issued = (IF taught THEN {FormatClassId(1)} ELSE {})
          /\ accepted = (IF taught THEN {<<TheModel, TaughtName(1)>>} ELSE {})
    /\ cortex_functions = <<>>
    /\ local_files = TwoFiles
    /\ reused = {}
    /\ OneRequest

SpecOneTeach == InitOneTeach /\ [][NextTeach]_vars

(***************************************************************************)
(* A teach request after a teach of class Cat from the user's directory    *)
(* that failed at add_class_embedding: the model is registered (unless     *)
(* add_model failed too), the files are in the stage and their image       *)
(* records are in the store.                                               *)
(***************************************************************************)
FailedClass == <<"C", "a", "t">>

\* the image records the failed teach inserted
FailedRecords(how) ==
    SetToBag({MetadataRow(f, StageTarget(StageName, TheModel, FailedClass),
                          FailedClass, how[f]) : f \in TwoFiles})

InitRetry ==
    /\ AI_MODELS \in {SetToBag({ModelRow(TheModel)}), EmptyBag}
    /\ MODEL_CLASSES = EmptyBag
    /\ CLASS_EMBEDDINGS = EmptyBag
    /\ \E how \in [TwoFiles -> {"hash", "fallback"}] :
          /\ IMAGE_METADATA = FailedRecords(how)
          /\ has_file_hash = (\E f \in TwoFiles : how[f] = "hash")
    /\ cortex_functions = <<>>
    /\ stage_files = PutFiles({}, TwoFiles, StageTarget(StageName, TheModel, FailedClass))
    /\ local_dirs = {UserDir, EmptyDir, OutDir(TheModel, FailedClass)}
    /\ local_files = TwoFiles
    /\ issued = {}
    /\ reused = {}
    /\ accepted = {}
    /\ OneRequest

SpecRetry == InitRetry /\ [][NextTeach]_vars

(***************************************************************************)
(* teach_workflow and _background_train as functions of the store, of the  *)
(* files of the directory (in the order os.listdir gives them) and of the  *)
(* set of the external calls that fail.                                    *)
(***************************************************************************)
\* bound on the number of external calls that fail in one run
MaxFailures == 2

\* an external call: a statement, or the PUT or INSERT of the file base
Call(name, base) == <<name, base>>

Calls(listing) ==
    {Call(name, <<>>) :
        name \in {"connect", "add_model_check", "add_model_insert", "get_next_class_id",
                  "alter", "embedding_check", "embedding_insert", "mapping_check",
                  "mapping_insert"}}
    \cup {Call(name, listing[i].base) :
             name \in {"put", "insert_hash", "insert"}, i \in 1..Len(listing)}

\* the store and the stage
Here ==
    [AI_MODELS |-> AI_MODELS, MODEL_CLASSES |-> MODEL_CLASSES,
     CLASS_EMBEDDINGS |-> CLASS_EMBEDDINGS, IMAGE_METADATA |-> IMAGE_METADATA,
     has_file_hash |-> has_file_hash, stage_files |-> stage_files]

Raise(st) == [st |-> st, raised |-> TRUE]

Return(st) == [st |-> st, raised |-> FALSE]

\* the first index of bad, n + 1 when there is none
FirstFailing(n, bad) ==
    IF bad = {} THEN n + 1 ELSE CHOOSE i \in bad : \A j \in bad : i <= j

add_model(st, model_name, failing) ==
    IF Call("add_model_check", <<>>) \in failing THEN Raise(st)
    ELSE IF CopiesIn(ModelRow(model_name), st.AI_MODELS) > 0 THEN Return(st)
    ELSE IF Call("add_model_insert", <<>>) \in failing THEN Raise(st)
    ELSE Return([st EXCEPT !.AI_MODELS = Insert(@, ModelRow(model_name))])

put_file(st, listing, stage_target, failing) ==
    IF listing = <<>> THEN Raise(st)
    ELSE LET bad == {i \in 1..Len(listing) : Call("put", listing[i].base) \in failing}
             done == {listing[i] : i \in 1..(FirstFailing(Len(listing), bad) - 1)}
         IN [st |-> [st EXCEPT !.stage_files = PutFiles(@, done, stage_target)],
             raised |-> bad # {}]

insert_image_metadata_from_local_dir(st, listing, stage_target, caption, failing) ==
    IF listing = <<>> THEN Return(st)
    ELSE LET column == st.has_file_hash \/ Call("alter", <<>>) \notin failing
             how == [i \in 1..Len(listing) |->
                       IF column /\ Call("insert_hash", listing[i].base) \notin failing
                       THEN "hash"
                       ELSE IF Call("insert", listing[i].base) \notin failing
                       THEN "fallback"
                       ELSE "raise"]
             bad == {i \in 1..Len(listing) : how[i] = "raise"}
             done == 1..(FirstFailing(Len(listing), bad) - 1)
         IN [st |-> [st EXCEPT
                        !.has_file_hash = column,
                        !.IMAGE_METADATA =
                           @ (+) SetToBag({MetadataRow(listing[i], stage_target, caption,
                                                       how[i]) : i \in done})],
             raised |-> bad # {}]

add_class_embedding(st, class_id, class_name, failing) ==
    IF Call("embedding_check", <<>>) \in failing THEN Raise(st)
    ELSE IF CountWhere(st.CLASS_EMBEDDINGS,
                       {r \in BagToSet(st.CLASS_EMBEDDINGS) : r.CLASS_NAME = class_name}) > 0
    THEN Return(st)
    ELSE IF Call("embedding_insert", <<>>) \in failing THEN Raise(st)
    ELSE Return([st EXCEPT
                    !.CLASS_EMBEDDINGS = Insert(@, EmbeddingRow(class_id, class_name))])

add_class_to_model(st, model_name, class_name, failing) ==
    IF Call("mapping_check", <<>>) \in failing THEN Raise(st)
    ELSE IF CopiesIn(MappingRow(model_name, class_name), st.MODEL_CLASSES) > 0
    THEN Return(st)
    ELSE IF Call("mapping_insert", <<>>) \in failing THEN Raise(st)
    ELSE Return([st EXCEPT
                    !.MODEL_CLASSES = Insert(@, MappingRow(model_name, class_name))])

\* a rollback that undoes the statements executed since the connection was
\* opened
RollbackPending(before, st) ==
    [before EXCEPT !.stage_files = st.stage_files]

\* csf._conn.rollback(): every statement was committed when it was executed
Rollback(before, st) == st

\* teach_workflow on a directory that exists
teach_workflow(st, model_name, class_name, listing, failing) ==
    LET stage_target == StageTarget(StageName, model_name, class_name)
        registered == add_model(st, model_name, failing).st
        class_id == get_next_class_id(registered.CLASS_EMBEDDINGS)
        uploaded == put_file(registered, listing, stage_target, failing)
        inserted == insert_image_metadata_from_local_dir(uploaded.st, listing, stage_target,
                                                         class_name, failing)
        embedded == add_class_embedding(inserted.st, class_id, class_name, failing)
        mapped == add_class_to_model(embedded.st, model_name, class_name, failing).st
    IN IF Call("connect", <<>>) \in failing THEN [st |-> Rollback(st, st), ok |-> FALSE]
       ELSE IF Call("get_next_class_id", <<>>) \in failing
       THEN [st |-> Rollback(st, registered), ok |-> FALSE]
       ELSE IF uploaded.raised THEN [st |-> Rollback(st, uploaded.st), ok |-> FALSE]
       ELSE IF inserted.raised THEN [st |-> Rollback(st, inserted.st), ok |-> FALSE]
       ELSE IF embedded.raised THEN [st |-> Rollback(st, embedded.st), ok |-> FALSE]
       ELSE [st |-> mapped, ok |-> TRUE]

\* _background_train: connect, add_model and get_next_class_id are outside
\* the try whose handler rolls back
background_train(st, model_name, class_name, listing, failing) ==
    LET stage_target == StageTarget(StageName, model_name, class_name)
        registered == add_model(st, model_name, failing).st
        class_id == get_next_class_id(registered.CLASS_EMBEDDINGS)
        uploaded == put_file(registered, listing, stage_target, failing)
        inserted == insert_image_metadata_from_local_dir(uploaded.st, listing, stage_target,
                                                         class_name, failing)
        embedded == add_class_embedding(inserted.st, class_id, class_name, failing)
        mapped == add_class_to_model(embedded.st, model_name, class_name, failing).st
    IN IF Call("connect", <<>>) \in failing THEN [st |-> st, ok |-> FALSE]
       ELSE IF Call("get_next_class_id", <<>>) \in failing
       THEN [st |-> registered, ok |-> FALSE]
       ELSE IF uploaded.raised THEN [st |-> Rollback(st, uploaded.st), ok |-> FALSE]
       ELSE IF inserted.raised THEN [st |-> Rollback(st, inserted.st), ok |-> FALSE]
       ELSE IF embedded.raised THEN [st |-> Rollback(st, embedded.st), ok |-> FALSE]
       ELSE [st |-> mapped, ok |-> TRUE]

\* the images of a class in its directory, in the orders of a listing
ClassFiles(model_name, class_name) ==
    LET f(k) == [dir |-> OutDir(model_name, class_name), base |-> ScrapedName(class_name, k),
                 content |-> IF k = 0 THEN "b1" ELSE "b2"]
    IN {<<>>, <<f(0)>>, <<f(0), f(1)>>, <<f(1), f(0)>>}

\* one run on the directory of the class, in either mode
InitModes ==
    /\ \E taught \in BOOLEAN :
          /\ AI_MODELS = OriginTables(taught).AI_MODELS
          /\ MODEL_CLASSES = OriginTables(taught).MODEL_CLASSES
          /\ CLASS_EMBEDDINGS = OriginTables(taught).CLASS_EMBEDDINGS
          /\ IMAGE_METADATA = OriginTables(taught).IMAGE_METADATA
          /\ has_file_hash \in (IF taught THEN {TRUE} ELSE BOOLEAN)
          /\ stage_files =
                IF taught
                THEN PutFiles({}, {TheFile}, StageTarget(StageName, TheModel, TaughtName(1)))
                ELSE {}
          /\ issued = (IF taught THEN {FormatClassId(1)} ELSE {})
          /\ accepted = (IF taught THEN {<<TheModel, TaughtName(1)>>} ELSE {})
    /\ \E c \in ClassNames \cup {TaughtName(1)} :
       \E listing \in ClassFiles(TheModel, c) :
       \E failing \in {F \in SUBSET Calls(listing) : Cardinality(F) <= MaxFailures} :
          /\ local_dirs = {OutDir(TheModel, c)}
          /\ local_files = {listing[i] : i \in 1..Len(listing)}
          /\ thr = [t \in Tids |->
                      IF t = 1
                      THEN [kind |-> "modes", pc |-> "run", model_name |-> TheModel,
                            class_name |-> c, listing |-> listing, failing |-> failing]
                      ELSE Idle]
    /\ cortex_functions = <<>>
    /\ reused = {}
    /\ nops = MaxOps
    /\ nfaults = 0
    /\ last = NoRequest

\* the run, in one of the two modes; last keeps the end state of both
RunModes(t) ==
    /\ At(t, {"modes"}, "run")
    /\ LET sync == teach_workflow(Here, thr[t].model_name, thr[t].class_name,
                                  thr[t].listing, thr[t].failing)
           async == background_train(Here, thr[t].model_name, thr[t].class_name,
                                     thr[t].listing, thr[t].failing)
       IN \E run \in {sync, async} :
             /\ AI_MODELS' = run.st.AI_MODELS
             /\ MODEL_CLASSES' = run.st.MODEL_CLASSES
             /\ CLASS_EMBEDDINGS' = run.st.CLASS_EMBEDDINGS
             /\ IMAGE_METADATA' = run.st.IMAGE_METADATA
             /\ has_file_hash' = run.st.has_file_hash
             /\ stage_files' = run.st.stage_files
             /\ last' = [kind |-> "modes", model_name |-> thr[t].model_name,
                         class_name |-> thr[t].class_name, listing |-> thr[t].listing,
                         failing |-> thr[t].failing, teach |-> sync, bg |-> async]
    /\ thr' = [thr EXCEPT ![t] = Idle]
    /\ UNCHANGED <<cortex_functions, local_dirs, local_files, nops, nfaults, history>>

NextModes == \E t \in Tids : RunModes(t)

SpecModes == InitModes /\ [][NextModes]_vars

(***************************************************************************)
(* Two requests among teach, admin_delete_class and admin_delete_model, on *)
(* an empty store or on the store that teaching class Cat of model N has   *)
(* left.                                                                   *)
(***************************************************************************)
\* the tables after class Cat of the other model was taught (or empty tables)
OtherModelTables(taught) ==
    LET kept == IF taught THEN {FailedClass} ELSE {}
    IN [AI_MODELS |-> SetToBag({ModelRow(OtherModel) : c \in kept}),
        MODEL_CLASSES |-> SetToBag({MappingRow(OtherModel, c) : c \in kept}),
        CLASS_EMBEDDINGS |-> SetToBag({EmbeddingRow(FormatClassId(1), c) : c \in kept}),
        IMAGE_METADATA |->
           SetToBag({MetadataRow(TheFile, StageTarget(StageName, OtherModel, c), c, "hash") :
                        c \in kept})]

InitAdmin ==
    /\ \E taught \in BOOLEAN :
          /\ AI_MODELS = OtherModelTables(taught).AI_MODELS
          /\ MODEL_CLASSES = OtherModelTables(taught).MODEL_CLASSES
          /\ CLASS_EMBEDDINGS = OtherModelTables(taught).CLASS_EMBEDDINGS
          /\ IMAGE_METADATA = OtherModelTables(taught).IMAGE_METADATA
          /\ has_file_hash = taught
          /\ stage_files =
                IF taught
                THEN PutFiles({}, {TheFile}, StageTarget(StageName, OtherModel, FailedClass))
                ELSE {}
          /\ local_dirs = {UserDir, EmptyDir}
                          \cup (IF taught THEN {OutDir(OtherModel, FailedClass)} ELSE {})
          /\ issued = (IF taught THEN {FormatClassId(1)} ELSE {})
          /\ accepted = (IF taught THEN {<<OtherModel, FailedClass>>} ELSE {})
    /\ cortex_functions = <<>>
    /\ local_files = {TheFile}
    /\ reused = {}
    /\ thr = [t \in Tids |-> Idle]
    /\ nops = MaxOps - 2
    /\ nfaults = 0
    /\ last = NoRequest

NextAdmin ==
    \E t \in Tids :
       \/ TeachRequest(t)
       \/ TeachDupCheck(t)
       \/ TeachScrape(t)
       \/ AddModelCheck(t)
       \/ AddModelInsert(t)
       \/ GetNextClassId(t)
       \/ PutFile(t)
       \/ InsertMetadata(t)
       \/ AddClassEmbeddingCheck(t)
       \/ AddClassEmbeddingInsert(t)
       \/ AddClassToModelCheck(t)
       \/ AddClassToModelInsert(t)
       \/ AdminDeleteClassRequest(t)
       \/ DeleteClassEmbeddings(t)
       \/ DeleteClassMapping(t)
       \/ DeleteClassFiles(t)
       \/ AdminDeleteModelRequest(t)
       \/ DeleteModelMappings(t)
       \/ DeleteModelRow(t)
       \/ DeleteModelFiles(t)

SpecAdmin == InitAdmin /\ [][NextAdmin]_vars

(***************************************************************************)
(* One admin_delete_model request on a store of classes taught in turn for *)
(* the two models.                                                         *)
(***************************************************************************)
InitDeleteModel ==
    /\ \E n \in 0..MaxRows :
       \E kept \in SUBSET (1..n) :
          TaughtStore(n, kept, ModelOf)
    /\ cortex_functions = <<>>
    /\ OneRequest

NextDeleteModel ==
    \E t \in Tids :
       \/ AdminDeleteModelRequest(t)
       \/ DeleteModelMappings(t)
       \/ DeleteModelRow(t)
       \/ DeleteModelFiles(t)

SpecDeleteModel == InitDeleteModel /\ [][NextDeleteModel]_vars

(***************************************************************************)
(* Two teach requests for class names that _safe changes.                  *)
(***************************************************************************)
\* names of the request form: with a blank, with an underscore, with a
\* character that is dropped
FormNames == {<<"a", " ", "b">>, <<"a", "_", "b">>, <<"a", "b", "!">>}

InitNames ==
    /\ AI_MODELS = EmptyBag
    /\ MODEL_CLASSES = EmptyBag
    /\ CLASS_EMBEDDINGS = EmptyBag
    /\ IMAGE_METADATA = EmptyBag
    /\ has_file_hash \in BOOLEAN
    /\ cortex_functions = <<>>
    /\ stage_files = {}
    /\ local_dirs = {UserDir, EmptyDir}
    /\ local_files = {TheFile}
    /\ thr = [t \in Tids |-> Idle]
    /\ nops = MaxOps - 2
    /\ nfaults = 0
    /\ issued = {}
    /\ reused = {}
    /\ accepted = {}
    /\ last = NoRequest

NextNames ==
    \E t \in Tids :
       \/ TeachRequestOf(t, FormNames)
       \/ TeachDupCheck(t)
       \/ TeachScrape(t)
       \/ AddModelCheck(t)
       \/ AddModelInsert(t)
       \/ GetNextClassId(t)
       \/ PutFile(t)
       \/ InsertMetadata(t)
       \/ AddClassEmbeddingCheck(t)
       \/ AddClassEmbeddingInsert(t)
       \/ AddClassToModelCheck(t)
       \/ AddClassToModelInsert(t)

SpecNames == InitNames /\ [][NextNames]_vars

(***************************************************************************)
(* training.py: the training sessions of the WebSocket /ws/training.       *)
(***************************************************************************)
\* trained_classes = set(); the one statement that adds to it follows the
\* call of scraper.get_images, which raises in every run: the set stays empty
trained_classes == {}

\* the model directory of get_sample_training_images
SampleModel == <<"M", "o", "u", "n", "t", "a", "i", "n", "_",
                 "D", "e", "t", "e", "c", "t", "o", "r">>

SampleDir(class_name) == ImagesRoot \o Slash \o SampleModel \o Slash \o class_name

EndsWith(s, p) == Len(s) >= Len(p) /\ SubSeq(s, Len(s) - Len(p) + 1, Len(s)) = p

\* img_dir.glob('*.jpg') + img_dir.glob('*.png'), all of them sampled when
\* they are twenty at most
SampleImages(class_name) ==
    {f \in ListDir(SampleDir(class_name)) :
        EndsWith(f.base, <<".", "j", "p", "g">>) \/ EndsWith(f.base, <<".", "p", "n", "g">>)}

\* the messages of a session
AlreadyTrained(class_name) ==
    [type |-> "error", message |-> <<"already trained", class_name>>]

ImagesMessage(class_name, fs) ==
    [type |-> "images",
     images |-> {<<"/training_image/">> \o class_name \o Slash \o f.base : f \in fs}]

\* str(e) of the exception of WebScraper() and of the AttributeError of
\* scraper.get_images, a method WebScraper does not have
DriverError == [type |-> "error", message |-> <<"driver">>]

NoGetImages == [type |-> "error", message |-> <<"no attribute get_images">>]

\* ws.send(json.dumps(message)) of thread t
Send(t, message, pc) ==
    thr' = [thr EXCEPT ![t].sent = Append(@, message), ![t].pc = pc]

\* training_socket receives {'action': 'start_training', 'class_name': c}
\* and starts a thread on process_training_images(c, ws)
StartTraining(t) ==
    /\ FreeThread(t) /\ nops < MaxOps
    /\ \E c \in ClassNames :
          thr' = [thr EXCEPT ![t] = [kind |-> "training", pc |-> "check",
                                     class_name |-> c, sent |-> <<>>]]
    /\ nops' = nops + 1
    /\ UNCHANGED <<store, files, nfaults, history, last>>

\* if class_name in trained_classes: the error message, and return
TrainingCheck(t) ==
    /\ At(t, {"training"}, "check")
    /\ IF thr[t].class_name \in trained_classes
       THEN Send(t, AlreadyTrained(thr[t].class_name), "done")
       ELSE thr' = [thr EXCEPT ![t].pc = "sample"]
    /\ UNCHANGED <<store, files, nops, nfaults, history, last>>

\* get_sample_training_images and the 'images' message
TrainingSample(t) ==
    /\ At(t, {"training"}, "sample")
    /\ LET fs == SampleImages(thr[t].class_name)
       IN IF fs # {}
          THEN Send(t, ImagesMessage(thr[t].class_name, fs), "scraper")
          ELSE thr' = [thr EXCEPT ![t].pc = "scraper"]
    /\ UNCHANGED <<store, files, nops, nfaults, history, last>>

\* WebScraper() and scraper.get_images(class_name, limit=50): the exception
\* is caught, its text is sent as an error, and the session ends
TrainingScraper(t) ==
    /\ At(t, {"training"}, "scraper")
    /\ \/ Fault /\ Send(t, DriverError, "done")
       \/ NoFault /\ Send(t, NoGetImages, "done")
    /\ UNCHANGED <<store, files, nops, history, last>>

SampleFiles ==
    {[dir |-> SampleDir(<<"C", "a", "t">>), base |-> <<"a", ".", "j", "p", "g">>,
      content |-> "b1"],
     [dir |-> SampleDir(<<"C", "a", "t">>), base |-> <<"b", ".", "p", "n", "g">>,
      content |-> "b2"],
     [dir |-> SampleDir(<<"C", "a", "t">>), base |-> <<"c", ".", "t", "x", "t">>,
      content |-> "b1"]}

InitTraining ==
    /\ AI_MODELS = EmptyBag
    /\ MODEL_CLASSES = EmptyBag
    /\ CLASS_EMBEDDINGS = EmptyBag
    /\ IMAGE_METADATA = EmptyBag
    /\ has_file_hash = FALSE
    /\ cortex_functions = <<>>
    /\ stage_files = {}
    /\ local_files \in SUBSET SampleFiles
    /\ local_dirs = {f.dir : f \in local_files}
    /\ thr = [t \in Tids |-> Idle]
    /\ nops = 0
    /\ nfaults = 0
    /\ issued = {}
    /\ reused = {}
    /\ accepted = {}
    /\ last = NoRequest

NextTraining ==
    \E t \in Tids :
       \/ StartTraining(t)
       \/ TrainingCheck(t)
       \/ TrainingSample(t)
       \/ TrainingScraper(t)

SpecTraining == InitTraining /\ [][NextTraining]_vars

(***************************************************************************)
(* A cleanup of the image directory after classes were taught.             *)
(***************************************************************************)
\* the (model, class) pairs that were taught
TaughtPairs == {TheModel, OtherModel} \X {<<"a", " ", "b">>, <<"D">>}

\* the file the acquisition provider left in the directory of the pair
ScrapedFile(p) ==
    [dir |-> OutDir(p[1], p[2]), base |-> ScrapedName(p[2], 0), content |-> "b2"]

\* the pairs of taught were taught by scraping; those of registered have
\* their mapping, the others lost it or never got it
InitCleanup ==
    /\ \E taught \in SUBSET TaughtPairs : \E registered \in SUBSET taught :
          LET classes == SeqOfSet({p[2] : p \in registered})
          IN /\ AI_MODELS = SetToBag({ModelRow(p[1]) : p \in taught})
             /\ MODEL_CLASSES = SetToBag({MappingRow(p[1], p[2]) : p \in registered})
             /\ CLASS_EMBEDDINGS =
                   SetToBag({EmbeddingRow(FormatClassId(k), classes[k]) :
                                k \in 1..Len(classes)})
             /\ IMAGE_METADATA =
                   SetToBag({MetadataRow(ScrapedFile(p), StageTarget(StageName, p[1], p[2]),
                                         p[2], "hash") : p \in taught})
             /\ has_file_hash = (taught # {})
             /\ stage_files = {[path |-> StageTarget(StageName, p[1], p[2]) \o Slash
                                            \o ScrapedFile(p).base,
                                content |-> ScrapedFile(p).content] : p \in taught}
             /\ local_dirs = {UserDir, EmptyDir} \cup {OutDir(p[1], p[2]) : p \in taught}
             /\ local_files = {TheFile} \cup {ScrapedFile(p) : p \in taught}
             /\ issued = {FormatClassId(k) : k \in 1..Len(classes)}
             /\ accepted = registered
    /\ cortex_functions = <<>>
    /\ reused = {}
    /\ OneRequest

NextCleanup ==
    \E t \in Tids :
       \/ AdminCleanupRequest(t)
       \/ CleanupSelect(t)
       \/ CleanupWalk(t)

SpecCleanup == InitCleanup /\ [][NextCleanup]_vars

(***************************************************************************)
(* The connections of the calls: teach with teach_workflow,                *)
(* _background_train and run_classification_on_uploaded, each as the       *)
(* statements it runs on its CustomSnowflake object between connect() and  *)
(* close().                                                                *)
(***************************************************************************)
MaxStatements == 2   \* statements a call runs on its connection at most

\* csf = CustomSnowflake.from_env(): _conn is None
NotConnected == [opener |-> <<>>, state |-> "none"]

\* the call of thread t: the request, or the background thread it started
NewCall(kind, pc, call, mode, left) ==
    [kind |-> kind, pc |-> pc, call |-> call, mode |-> mode, left |-> left,
     csf |-> NotConnected, raised |-> FALSE]

\* POST /teach: image_source_dir names a directory (sync), none (async),
\* or a directory that does not exist (no_dir)
TeachCall(t) ==
    /\ FreeThread(t) /\ nops < MaxOps
    /\ \E mode \in {"sync", "async", "no_dir"} :
          thr' = [thr EXCEPT ![t] =
                    NewCall("teach", "connect", <<"teach", nops + 1>>, mode, 1)]
    /\ nops' = nops + 1
    /\ UNCHANGED <<store, files, nfaults, history, last>>

\* run_classification_on_uploaded is called
ClassifyCall(t) ==
    /\ FreeThread(t) /\ nops < MaxOps
    /\ \E left \in 1..MaxStatements :
          thr' = [thr EXCEPT ![t] =
                    NewCall("classify", "connect", <<"classify", nops + 1>>, "sync", left)]
    /\ nops' = nops + 1
    /\ UNCHANGED <<store, files, nfaults, history, last>>

ConnectionCalls == {"teach", "teach_workflow", "background_train", "classify"}

\* csf.connect(): snowflake.connector.connect gives a new connection, or raises
Connect(t) ==
    /\ At(t, ConnectionCalls, "connect")
    /\ \/ /\ Fault
          /\ thr' = [thr EXCEPT ![t].pc = "close", ![t].raised = TRUE]
       \/ /\ NoFault
          /\ thr' = [thr EXCEPT ![t].pc = "run",
                                ![t].csf = [opener |-> thr[t].call, state |-> "open"]]
    /\ UNCHANGED <<store, files, nops, history, last>>

\* a method of csf runs a statement on csf._conn; an exception leaves the
\* try block, except where the caller swallows it (add_model,
\* add_class_to_model); after the last statement the block is left
RunStatement(t) ==
    /\ At(t, ConnectionCalls, "run")
    /\ LET next == IF thr[t].left = 1 THEN "close" ELSE "run"
       IN \/ /\ Fault
             /\ thr' = [thr EXCEPT ![t].pc = "close", ![t].raised = TRUE]
          \/ /\ Fault
             /\ thr[t].kind \in {"teach_workflow", "background_train"}
             /\ thr' = [thr EXCEPT ![t].pc = next, ![t].left = @ - 1]
          \/ /\ NoFault
             /\ thr' = [thr EXCEPT ![t].pc = next, ![t].left = @ - 1]
    /\ UNCHANGED <<store, files, nops, history, last>>

\* finally: csf.close(); an exception of _conn.close() is logged, and
\* _conn is None afterwards
Close(t) ==
    /\ At(t, ConnectionCalls, "close")
    /\ thr' = [thr EXCEPT ![t].pc = "after",
                          ![t].csf.state = IF @ = "open" THEN "closed" ELSE @]
    /\ (Fault /\ thr[t].csf.state = "open") \/ NoFault
    /\ UNCHANGED <<store, files, nops, history, last>>

\* teach found a duplicate or a database error, or a call has ended: return
ReturnFromCall(t) ==
    /\ At(t, ConnectionCalls, "after")
    /\ thr' = [thr EXCEPT ![t] = Idle]
    /\ UNCHANGED <<store, files, nops, nfaults, history, last>>

\* teach calls teach_workflow, which makes its own CustomSnowflake when
\* the source directory exists
CallTeachWorkflow(t) ==
    /\ At(t, {"teach"}, "after")
    /\ ~thr[t].raised
    /\ \/ /\ thr[t].mode = "sync"
          /\ \E left \in 1..MaxStatements :
                thr' = [thr EXCEPT ![t] =
                          NewCall("teach_workflow", "connect", thr[t].call, "sync", left)]
       \/ /\ thr[t].mode = "no_dir"
          /\ thr' = [thr EXCEPT ![t] = Idle]
    /\ UNCHANGED <<store, files, nops, nfaults, history, last>>

\* the thread of _background_train starts with the request's connection
StartBackgroundShared(t) ==
    /\ At(t, {"teach"}, "after")
    /\ ~thr[t].raised /\ thr[t].mode = "async"
    /\ \E left \in 1..MaxStatements :
          thr' = [thr EXCEPT ![t] =
                    [NewCall("background_train", "run", <<"bg", thr[t].call[2]>>,
                             "async", left) EXCEPT !.csf = thr[t].csf]]
    /\ UNCHANGED <<store, files, nops, nfaults, history, last>>

\* teach starts the thread of _background_train, which makes its own
\* CustomSnowflake, and returns the training page
StartBackground(t) ==
    /\ At(t, {"teach"}, "after")
    /\ ~thr[t].raised /\ thr[t].mode = "async"
    /\ \E left \in 1..MaxStatements :
          thr' = [thr EXCEPT ![t] =
                    NewCall("background_train", "connect", <<"bg", thr[t].call[2]>>,
                            "async", left)]
    /\ UNCHANGED <<store, files, nops, nfaults, history, last>>

NextConnections ==
    \E t \in Tids :
       \/ TeachCall(t)
       \/ ClassifyCall(t)
       \/ Connect(t)
       \/ RunStatement(t)
       \/ Close(t)
       \/ ReturnFromCall(t)
       \/ CallTeachWorkflow(t)
       \/ StartBackground(t)

SpecConnections == Init /\ [][NextConnections]_vars

(***************************************************************************)
(* Properties of teach.                                                    *)
(***************************************************************************)
\* C1: a teach request for a (model, class) pair that an earlier, returned
\* teach request taught (in either mode, with no deletion since) goes no
\* further than the duplicate check: it scrapes nothing and uploads nothing,
\* and its result is the duplicate-class error (or the failure of the check
\* itself)
C1_SecondTeachIsDuplicate ==
    /\ \A t \in Tids :
          thr[t].kind \in Workers /\ thr[t].after_accept => thr[t].pc = "check"
    /\ last.kind \in Workers /\ last.after_accept
          => last.result \in {"duplicate", "db_error"}

\* C2: no two background training tasks run at the same time for the same
\* (model, class) pair
C2_OneBackgroundTaskPerPair ==
    \A t, u \in Tids :
       t # u /\ thr[t].kind = "bg" /\ thr[u].kind = "bg"
          => <<thr[t].model_name, thr[t].class_name>>
                # <<thr[u].model_name, thr[u].class_name>>

\* C3: CLASS_EMBEDDINGS holds at most one row per class name
C3_OneEmbeddingPerClassName ==
    \A c \in ClassNames :
       SumCopies(CLASS_EMBEDDINGS,
                 {r \in BagToSet(CLASS_EMBEDDINGS) : r.CLASS_NAME = c}) <= 1

\* C4: no two rows of CLASS_EMBEDDINGS carry the same CLASS_ID
C4_ClassIdsDistinct ==
    \A r \in BagToSet(CLASS_EMBEDDINGS) :
       SumCopies(CLASS_EMBEDDINGS,
                 {q \in BagToSet(CLASS_EMBEDDINGS) : q.CLASS_ID = r.CLASS_ID}) = 1

\* the numeric suffix of an identifier c<N>, read digit by digit
Suffix(class_id) ==
    LET digits == Tail(class_id)
        value[k \in 0..Len(digits)] ==
            IF k = 0 THEN 0 ELSE 10 * value[k - 1] + DigitVal(digits[k])
    IN value[Len(digits)]

\* C5: the identifier c<N> that get_next_class_id returns has N greater than
\* the suffix of every identifier in CLASS_EMBEDDINGS at that moment, and it
\* is c1 when the table is empty
C5_NextIdAboveAll ==
    [][\A t \in Tids :
          At(t, Workers, "next_id") /\ thr'[t].pc = "put_file"
             => /\ Head(thr'[t].class_id) = "c"
                /\ \A r \in BagToSet(CLASS_EMBEDDINGS) :
                      Suffix(thr'[t].class_id) > Suffix(r.CLASS_ID)
                /\ CLASS_EMBEDDINGS = EmptyBag => thr'[t].class_id = <<"c", "1">>]_vars

\* C5 witness: c12 was returned for a table whose highest identifier is c11
C5_Witness ==
    \E t \in Tids :
       /\ thr[t].kind \in Workers /\ thr[t].pc = "put_file"
       /\ thr[t].class_id = <<"c", "1", "2">>
       /\ \E r \in BagToSet(CLASS_EMBEDDINGS) : r.CLASS_ID = <<"c", "1", "1">>

\* C6: an identifier that was once inserted for a class is never inserted
\* again for a later class, also after the earlier class was deleted
C6_ClassIdNeverReused == reused = {}

(***************************************************************************)
(* Properties of classify.  A returned classification is judged against    *)
(* the store, which no other request changes while it is served.           *)
(***************************************************************************)
\* the classification call returned after an upload that succeeded and a
\* discovery that found no image-embedding function
FellBack == last.kind = "classify" /\ last.result # "upload_failed" /\ last.img_fn = NULL

Records == BagToSet(IMAGE_METADATA)

\* the part of a path after its last "/"
FileNameOf(path) ==
    LET cut == {k \in 0..Len(path) : (k = 0 \/ path[k] = "/")
                                     /\ \A j \in (k + 1)..Len(path) : path[j] # "/"}
    IN SubSeq(path, (CHOOSE k \in cut : TRUE) + 1, Len(path))

\* the records of the exact remote path of the classified image
PathMatches ==
    {r \in Records : r.FILE_PATH = last.stage_name_detect \o <<"/">> \o FileNameOf(last.tmp_path)}

\* s agrees with pat, where "_" of pat stands for any one character
AgreesWith(s, pat) ==
    /\ Len(s) = Len(pat)
    /\ \A k \in 1..Len(pat) : pat[k] = "_" \/ pat[k] = s[k]

\* the records whose path ends in "/" and the name of the classified image
BasenameMatches ==
    {r \in Records :
        LET pat == <<"/">> \o FileNameOf(last.tmp_path)
        IN /\ Len(r.FILE_PATH) >= Len(pat)
           /\ AgreesWith(SubSeq(r.FILE_PATH, Len(r.FILE_PATH) - Len(pat) + 1,
                                Len(r.FILE_PATH)), pat)}

\* the records whose stored hash is the hash of the classified image
HashMatches ==
    IF has_file_hash
    THEN {r \in Records : r.FILE_HASH = <<"sha256", last.content>>}
    ELSE {}

\* the result is the single pair of the caption of one of the records rs and
\* the score, in hundredths
Answers(rs, score) ==
    /\ last.result = "ok"
    /\ \E r \in rs : last.rows = <<<<r.CAPTION, score>>>>

HashQueryFails(t) ==
    /\ At(t, {"classify"}, "hash")
    /\ thr'[t] # thr[t]
    /\ nfaults' # nfaults \/ ~has_file_hash

\* C24: a failing content-hash query ends the classification with the
\* no-match error and no rows, not with the error of the query; and where the
\* FILE_HASH column is absent a match of the path or of the basename is
\* still the answer.
C24_HashFailureIsNoMatch ==
    /\ [][\A t \in Tids : HashQueryFails(t) =>
             /\ thr'[t] = Idle
             /\ last'.kind = "classify" /\ last'.result = "no_match"
             /\ last'.rows = <<>>]_vars
    /\ [](FellBack /\ ~has_file_hash /\ ~last.failed =>
             IF PathMatches # {} THEN Answers(PathMatches, 100)
             ELSE BasenameMatches # {} => Answers(BasenameMatches, 95))

\* C24 witness: with no FILE_HASH column and records that match neither the
\* path nor the basename, the hash tier was reached and the call ended with
\* the no-match error
C24_Witness ==
    /\ FellBack /\ ~has_file_hash /\ ~last.failed
    /\ Records # {} /\ PathMatches = {} /\ BasenameMatches = {}
    /\ last.result = "no_match"


\* the classification call returned the rows of the similarity query
Ranked == last.kind = "classify" /\ last.result = "ok" /\ last.img_fn # NULL

\* the class embeddings the query ranks: all, or those of the model's classes
Ranking ==
    {r \in BagToSet(CLASS_EMBEDDINGS) :
        \/ last.model_name = NULL \/ last.model_name = <<>>
        \/ \E mc \in BagToSet(MODEL_CLASSES) :
              mc.MODEL_NAME = last.model_name /\ mc.CLASS_NAME = r.CLASS_NAME}

ScoreOf(r) == last.sim[r.TEXT_VECTOR]

\* at most 5 results, each the name and score of a ranked class, and none
\* of the classes left out scores higher than a returned one
TopFive ==
    /\ Len(last.rows) <= 5
    /\ \A k \in 1..Len(last.rows) :
          \E r \in Ranking : last.rows[k] = <<r.CLASS_NAME, ScoreOf(r)>>
    /\ \A r \in Ranking :
          (\A k \in 1..Len(last.rows) : last.rows[k][1] # r.CLASS_NAME)
             => /\ Len(last.rows) = 5
                /\ \A k \in 1..Len(last.rows) : ScoreOf(r) <= last.rows[k][2]

\* C10 as stated: with an image-embedding function, the results are at most
\* 5, the highest-scoring, in strictly descending order of score
C10_StrictlyDescendingTopFive ==
    Ranked =>
       /\ TopFive
       /\ \A j, k \in 1..Len(last.rows) : j < k => last.rows[j][2] > last.rows[k][2]

\* C10 amended: with an image-embedding function, the results are at most
\* 5, the highest-scoring, and no result scores higher than one before it
C10_DescendingTopFive ==
    Ranked =>
       /\ TopFive
       /\ \A j, k \in 1..Len(last.rows) : j < k => last.rows[j][2] >= last.rows[k][2]

\* C10 witness: five of six classes returned, two of them with equal scores
C10_Witness ==
    /\ Ranked
    /\ Len(last.rows) = 5 /\ Cardinality(Ranking) > 5
    /\ last.rows[1][2] > last.rows[5][2]
    /\ \E k \in 1..4 : last.rows[k][2] = last.rows[k + 1][2]

\* the classification was asked for the classes of one model
Filtered == last.model_name # NULL /\ last.model_name # <<>>

\* C11: on the vector path with a model filter every returned class name is
\* mapped to that model in MODEL_CLASSES; without a filter every stored
\* class embedding is ranked: it is returned, or five rows that score no
\* lower are
C11_FilterRestrictsToModel ==
    Ranked =>
       IF Filtered
       THEN \A k \in 1..Len(last.rows) :
               \E mc \in BagToSet(MODEL_CLASSES) :
                  mc.MODEL_NAME = last.model_name /\ mc.CLASS_NAME = last.rows[k][1]
       ELSE \A r \in BagToSet(CLASS_EMBEDDINGS) :
               \/ \E k \in 1..Len(last.rows) :
                     last.rows[k] = <<r.CLASS_NAME, last.sim[r.TEXT_VECTOR]>>
               \/ /\ Len(last.rows) = 5
                  /\ \A k \in 1..5 : last.sim[r.TEXT_VECTOR] <= last.rows[k][2]

\* C11 witness: a filtered result that leaves out a class of another model
\* which scores higher than every returned class
C11_Witness ==
    /\ Ranked /\ Filtered /\ Len(last.rows) >= 2
    /\ \E r \in BagToSet(CLASS_EMBEDDINGS) :
          /\ \A mc \in BagToSet(MODEL_CLASSES) :
                mc.CLASS_NAME = r.CLASS_NAME => mc.MODEL_NAME # last.model_name
          /\ last.sim[r.TEXT_VECTOR] > last.rows[1][2]

\* the similarity query of the classification ran and had no class to rank
RankedNothing ==
    /\ last.kind = "classify" /\ last.result # "upload_failed"
    /\ last.img_fn # NULL /\ ~last.failed
    /\ Ranking = {}

\* the numbers of class embeddings, all and with a vector
EmbeddingCounts ==
    LET n == SumCopies(CLASS_EMBEDDINGS, BagToSet(CLASS_EMBEDDINGS))
    IN <<n, n>>

\* C12 as stated: a similarity query of zero rows ends the classification
\* in the error that carries the embedding row counts
C12_ZeroRowsErrorCarriesCounts ==
    RankedNothing => last.result = "no_rows" /\ last.counts = EmbeddingCounts

\* C12 amended: a similarity query of zero rows ends the classification in
\* an error, never in an empty result; the error carries the embedding row
\* counts when the two counting queries succeed, and is the failure of the
\* counting query otherwise
C12_ZeroRowsIsAnError ==
    /\ RankedNothing =>
          /\ last.rows = <<>>
          /\ \/ last.result = "no_rows" /\ last.counts = EmbeddingCounts
             \/ last.result = "count_failed" /\ nfaults > 0
    /\ Ranked => last.rows # <<>>

\* C12 witness: the error reports that the table has rows of which the
\* filtered query returned none
C12_Witness ==
    /\ RankedNothing /\ Filtered
    /\ last.result = "no_rows" /\ last.counts[1] > 0

(***************************************************************************)
(* Properties of a teach that fails or is run again.                       *)
(***************************************************************************)
\* C13: a synchronous teach of the class and files of a teach that failed
\* between the metadata insertion and the creation of the embedding, once it
\* has completed, leaves exactly one CLASS_EMBEDDINGS row of the class and
\* no two IMAGE_METADATA rows of one file.
C13_RetryConverges ==
    (last.kind = "teach" /\ last.result = "ok" /\ last.class_name = FailedClass)
    => /\ CountWhere(CLASS_EMBEDDINGS,
                     {r \in BagToSet(CLASS_EMBEDDINGS) : r.CLASS_NAME = FailedClass}) = 1
       /\ \A r \in BagToSet(IMAGE_METADATA) :
             CountWhere(IMAGE_METADATA,
                        {q \in BagToSet(IMAGE_METADATA) : q.FILE_PATH = r.FILE_PATH}) = 1


\* the tables
Tables ==
    [AI_MODELS |-> AI_MODELS, MODEL_CLASSES |-> MODEL_CLASSES,
     CLASS_EMBEDDINGS |-> CLASS_EMBEDDINGS, IMAGE_METADATA |-> IMAGE_METADATA]

\* the tables before the one request of SpecOneTeach: teach deletes no row,
\* so class k1 is in the store exactly when it was there before
Origin ==
    OriginTables(CopiesIn(EmbeddingRow(FormatClassId(1), TaughtName(1)),
                          CLASS_EMBEDDINGS) > 0)

\* the step of thread t is a put_file that raised: a PUT failed, after any
\* number of the files were put, or the directory holds no file
UploadFails(t) ==
    /\ At(t, Workers, "put_file")
    /\ thr'[t] # thr[t]
    /\ nfaults' > nfaults \/ ListDir(thr[t].src_dir) = {}

\* C15: when the upload step of a teach fails, also after some of the files
\* were put, the teach ends in an error and IMAGE_METADATA, CLASS_EMBEDDINGS
\* and MODEL_CLASSES hold the rows they held before the request.
C15_UploadFailureWritesNoRows ==
    [][\A t \in Tids :
          UploadFails(t)
          => /\ thr'[t] = Idle
             /\ last'.result = "error"
             /\ IMAGE_METADATA' = Origin.IMAGE_METADATA
             /\ CLASS_EMBEDDINGS' = Origin.CLASS_EMBEDDINGS
             /\ MODEL_CLASSES' = Origin.MODEL_CLASSES]_vars

\* a synchronous teach of the two files has failed with one of them put
C15_Witness ==
    /\ last.kind = "teach" /\ last.result = "error"
    /\ Cardinality({f \in stage_files :
                       StartsWith(f.path, StageTarget(StageName, last.model_name,
                                                      last.class_name))}) = 1
    /\ IMAGE_METADATA = Origin.IMAGE_METADATA
    /\ CLASS_EMBEDDINGS = Origin.CLASS_EMBEDDINGS
    /\ MODEL_CLASSES = Origin.MODEL_CLASSES
    /\ Origin.IMAGE_METADATA # EmptyBag


\* C16: once a teach has ended in the error of an exception (at the class id,
\* the upload, the metadata insertion or the embedding), the tables hold the
\* rows they held before the request: no AI_MODELS, IMAGE_METADATA,
\* CLASS_EMBEDDINGS or MODEL_CLASSES row of the call remains.
C16_FailedTeachLeavesNoRows ==
    (last.kind \in Workers /\ last.result = "error") => Tables = Origin


\* the step of thread t finds that the image source yields no image: the
\* acquisition provider reports failure, or put_file finds no file in the
\* directory
ZeroImages(t) ==
    \/ At(t, {"teach"}, "scrape") /\ nfaults' > nfaults
    \/ /\ At(t, Workers, "put_file")
       /\ thr'[t] # thr[t]
       /\ ListDir(thr[t].src_dir) = {}

\* C18: when the image source of a teach yields no image, the teach ends in
\* an error with no background thread started, and the tables hold the rows
\* they held before the request.
C18_ZeroImagesLeaveStoreUnchanged ==
    [][\A t \in Tids :
          ZeroImages(t)
          => /\ thr'[t] = Idle
             /\ last'.result \in {"error", "scraper_failed"}
             /\ Tables' = Origin]_vars


\* the step of thread t is the metadata insertion for a directory with files
MetadataStep(t) ==
    /\ At(t, Workers, "insert_metadata")
    /\ thr'[t] # thr[t]
    /\ IsDir(thr[t].src_dir) /\ ListDir(thr[t].src_dir) # {}

\* C17: the metadata insertion ends the teach in an error only when it has
\* inserted no row at all; otherwise every file of the directory has got its
\* row, with the hash or, where that insert failed, without it.
C17_FatalOnlyWhenNoRowInserted ==
    [][\A t \in Tids :
          MetadataStep(t)
          => IF thr'[t] = Idle
             THEN IMAGE_METADATA' = IMAGE_METADATA
             ELSE BagCardinality(IMAGE_METADATA') =
                     BagCardinality(IMAGE_METADATA)
                     + Cardinality(ListDir(thr[t].src_dir))]_vars


\* the files the last teach acquired: those the provider wrote into the
\* directory of the class, or those of the user's directory
Acquired ==
    IF last.kind = "bg"
    THEN ListDir(OutDir(last.model_name, last.class_name))
    ELSE ListDir(UserDir)

\* the image records that were not there before the request
NewRecords == IMAGE_METADATA (-) Origin.IMAGE_METADATA

C20_DeletedClassHasNoRecords ==
    (/\ last.kind = "delete_class" /\ last.result = "deleted"
     /\ \A t \in Tids : thr[t].kind \in Workers => thr[t].class_name # last.class_name)
    => \A r \in BagToSet(IMAGE_METADATA) : r.CAPTION # last.class_name


(***************************************************************************)
(* Properties of the two modes of teach.                                   *)
(***************************************************************************)
\* the tables and the columns of a store
MetadataStore(st) ==
    [AI_MODELS |-> st.AI_MODELS, MODEL_CLASSES |-> st.MODEL_CLASSES,
     CLASS_EMBEDDINGS |-> st.CLASS_EMBEDDINGS, IMAGE_METADATA |-> st.IMAGE_METADATA,
     has_file_hash |-> st.has_file_hash]

\* C14: from the same store and the same files of the directory, and with
\* the same external calls failing, teach_workflow and the background task
\* end with the same rows in the four tables, and both succeed or both fail.
C14_ModesEndInTheSameStore ==
    last.kind = "modes"
    => /\ MetadataStore(last.teach.st) = MetadataStore(last.bg.st)
       /\ last.teach.ok = last.bg.ok

\* the two modes have failed at the class id after the model was registered,
\* the one calling rollback and the other not
C14_Witness ==
    /\ last.kind = "modes"
    /\ Call("get_next_class_id", <<>>) \in last.failing
    /\ ~last.teach.ok
    /\ last.teach.st.AI_MODELS # EmptyBag
    /\ Len(last.listing) = 2


(***************************************************************************)
(* Properties of admin_delete_model and admin_delete_class.                *)
(***************************************************************************)
\* the image records teach wrote for the classes of model_name
RecordsOfModel(model_name) ==
    {r \in BagToSet(IMAGE_METADATA) :
        StartsWith(r.FILE_PATH, StageName \o Slash \o Safe(model_name) \o Slash)}

\* class_name is mapped to a model other than model_name
MappedElsewhere(model_name, class_name) ==
    \E r \in BagToSet(MODEL_CLASSES) :
       r.CLASS_NAME = class_name /\ r.MODEL_NAME # model_name

\* C21: once admin_delete_model has deleted model M, with no teach of M
\* running, there is no AI_MODELS row and no MODEL_CLASSES row of M, and no
\* IMAGE_METADATA row and no CLASS_EMBEDDINGS row of a class that was taught
\* for M and is mapped to no other model.
C21_DeletedModelLeavesNothing ==
    (/\ last.kind = "delete_model" /\ last.result = "deleted"
     /\ \A t \in Tids : thr[t].kind \in Workers => thr[t].model_name # last.model_name)
    => /\ CopiesIn(ModelRow(last.model_name), AI_MODELS) = 0
       /\ \A r \in BagToSet(MODEL_CLASSES) : r.MODEL_NAME # last.model_name
       /\ \A r \in RecordsOfModel(last.model_name) :
             /\ MappedElsewhere(last.model_name, r.CAPTION)
             /\ \A e \in BagToSet(CLASS_EMBEDDINGS) :
                   e.CLASS_NAME = r.CAPTION
                   => MappedElsewhere(last.model_name, e.CLASS_NAME)


\* the rows of the three tables that belong to classes of models other than
\* model_name: their mappings, the embeddings of the class names they map,
\* and the image records written under their stage paths
OthersRows(model_name) ==
    [MODEL_CLASSES |->
        [r \in {q \in BagToSet(MODEL_CLASSES) : q.MODEL_NAME # model_name} |->
            MODEL_CLASSES[r]],
     CLASS_EMBEDDINGS |->
        [r \in {q \in BagToSet(CLASS_EMBEDDINGS) :
                   MappedElsewhere(model_name, q.CLASS_NAME)} |-> CLASS_EMBEDDINGS[r]],
     IMAGE_METADATA |->
        [r \in BagToSet(IMAGE_METADATA) \ RecordsOfModel(model_name) |->
            IMAGE_METADATA[r]]]

\* C22: a step of admin_delete_class for class C of model M, C being mapped
\* to M, leaves the mappings, the embeddings and the image records of the
\* classes of every other model as they are, also those of a class of
\* another model that has the name C.
C22_DeleteClassLeavesOtherModels ==
    [][\A t \in Tids :
          (/\ thr[t].kind = "delete_class"
           /\ thr'[t] # thr[t]
           /\ CopiesIn(MappingRow(thr[t].model_name, thr[t].class_name), MODEL_CLASSES) > 0)
          => OthersRows(thr[t].model_name)' = OthersRows(thr[t].model_name)]_vars


(***************************************************************************)
(* Properties of the registration of models and classes.                   *)
(***************************************************************************)
\* C25: in every reachable state AI_MODELS has at most one row of a model
\* name and MODEL_CLASSES has at most one row of a (model, class) pair.
C25_OneRowPerModelAndPair ==
    /\ \A r \in BagToSet(AI_MODELS) : CopiesIn(r, AI_MODELS) = 1
    /\ \A r \in BagToSet(MODEL_CLASSES) : CopiesIn(r, MODEL_CLASSES) = 1


\* C28: when teach_workflow has returned success for (model, class), and no
\* other request has run (one request is served), AI_MODELS has the row of
\* the model, CLASS_EMBEDDINGS a row of the class name and MODEL_CLASSES the
\* row of the pair, which the duplicate check of a later teach looks for.
C28_SuccessMeansRegistered ==
    (last.kind = "teach" /\ last.result = "ok")
    => /\ CopiesIn(ModelRow(last.model_name), AI_MODELS) > 0
       /\ \E r \in BagToSet(CLASS_EMBEDDINGS) : r.CLASS_NAME = last.class_name
       /\ CopiesIn(MappingRow(last.model_name, last.class_name), MODEL_CLASSES) > 0


\* C29: in every reachable state every MODEL_CLASSES row names a model that
\* has a row in AI_MODELS.
C29_MappingsReferToModels ==
    \A r \in BagToSet(MODEL_CLASSES) :
        CopiesIn(ModelRow(r.MODEL_NAME), AI_MODELS) > 0


(***************************************************************************)
(* Properties of the storage tokens of model and class names.              *)
(***************************************************************************)
\* the token has only alphanumeric characters, hyphens and underscores
IsToken(s) == \A k \in 1..Len(s) : IsAlnum(s[k]) \/ s[k] \in {"-", "_"}

\* the (model, class) pairs of the requests in progress and of the rows of
\* MODEL_CLASSES
PairsInUse ==
    {<<thr[t].model_name, thr[t].class_name>> : t \in {u \in Tids : thr[u].kind \in Workers}}
    \cup {<<r.MODEL_NAME, r.CLASS_NAME>> : r \in BagToSet(MODEL_CLASSES)}

\* the file of the image record was acquired for the class of its caption:
\* the provider named it after the class, or the user gave its directory
OfOwnClass(r) ==
    \/ FileNameOf(r.FILE_PATH) = TheFile.base
    \/ \E k \in 0..(NumImages - 1) : FileNameOf(r.FILE_PATH) = ScrapedName(r.CAPTION, k)

\* C30: the tokens of the names in use have only alphanumeric characters,
\* hyphens and underscores; two distinct (model, class) pairs in use have
\* distinct storage subpaths; and every image record is of a file acquired
\* for the class of its caption.
C30_TokensKeepClassesApart ==
    /\ \A p \in PairsInUse : IsToken(Safe(p[1])) /\ IsToken(Safe(p[2]))
    /\ \A p, q \in PairsInUse : p # q => OutDir(p[1], p[2]) # OutDir(q[1], q[2])
    /\ \A r \in BagToSet(IMAGE_METADATA) : OfOwnClass(r)


(***************************************************************************)
(* Properties of the training sessions.                                    *)
(***************************************************************************)
\* the sessions for the class that have ended
EndedSessions(class_name) ==
    {t \in Tids : /\ thr[t].kind = "training" /\ thr[t].pc = "done"
                  /\ thr[t].class_name = class_name}

Completed(t) == \E i \in 1..Len(thr[t].sent) : thr[t].sent[i].type = "complete"

Rejected(t) == thr[t].sent[Len(thr[t].sent)] = AlreadyTrained(thr[t].class_name)

\* C27: of the training sessions for one class name that have ended, at
\* most one has sent 'complete', and of any two of them one was rejected
\* with the 'has already been trained' error.
C27_OneSessionCompletes ==
    \A c \in ClassNames :
       /\ Cardinality({t \in EndedSessions(c) : Completed(t)}) <= 1
       /\ \A t, u \in EndedSessions(c) : t # u => Rejected(t) \/ Rejected(u)


(***************************************************************************)
(* Properties of the cleanup of the image directory.                       *)
(***************************************************************************)
\* the local directories of the classes registered in MODEL_CLASSES
RegisteredDirs ==
    {OutDir(r.MODEL_NAME, r.CLASS_NAME) : r \in BagToSet(MODEL_CLASSES)}

\* the step is the walk of a cleanup
Walks(t) == At(t, {"cleanup"}, "walk") /\ thr'[t] = Idle

\* C26: the walk of cleanup_images removes no directory and no file of a
\* class registered in MODEL_CLASSES, and removes every class directory of
\* an unregistered class.
C26_CleanupRemovesOnlyUnregistered ==
    [][\A t \in Tids : Walks(t) =>
          /\ \A d \in RegisteredDirs \cap local_dirs :
                d \in local_dirs' /\ ListDir(d) \subseteq local_files'
          /\ \A d \in ClassDirs \ RegisteredDirs : d \notin local_dirs']_vars


(***************************************************************************)
(* Properties of the connections of the calls.                             *)
(***************************************************************************)
Calling == {t \in Tids : thr[t].kind \in ConnectionCalls}

\* C23: a call that runs a statement runs it on an open connection that it
\* opened itself and that no other call holds; and a call that holds an open
\* connection keeps holding it until it has closed it, however the call
\* ends and whether or not the request that started it has returned.
C23_CallsOwnAndCloseConnections ==
    /\ [](\A t \in Calling :
             thr[t].pc = "run" =>
                /\ thr[t].csf = [opener |-> thr[t].call, state |-> "open"]
                /\ \A u \in Calling \ {t} : thr[u].csf.opener # thr[t].csf.opener)
    /\ [][\A t \in Calling :
             thr[t].csf.state = "open" =>
                /\ thr'[t].kind \in ConnectionCalls
                /\ thr'[t].csf.opener = thr[t].csf.opener]_vars

\* C23 witness: a background thread has closed its own connection after a
\* statement raised, while no request is being served
C23_Witness ==
    \E t \in Calling :
       /\ thr[t].kind = "background_train" /\ thr[t].pc = "after"
       /\ thr[t].raised
       /\ thr[t].csf = [opener |-> thr[t].call, state |-> "closed"]
       /\ \A u \in Tids \ {t} : thr[u] = Idle

=============================================================================
